---- MODULE Spec2Model ----
(***************************************************************************)
(* Transaction validation of the vapor node (package validation): the gas  *)
(* meter (GasState), the entry-graph walk (checkValid, checkValidSrc,      *)
(* checkValidDest) and ValidateTx.                                         *)
(*                                                                         *)
(* Machine integers are modelled with their width scaled down: an int64 is *)
(* an IntBits-bit two's complement integer and a uint64 an IntBits-bit     *)
(* unsigned one, so that the overflow cases are within TLC's reach.        *)
(***************************************************************************)
EXTENDS Integers, Sequences, FiniteSets, TLC

VARIABLES
    tx,     \* the transaction under validation (*bc.Tx)
    block,  \* the enclosing block (*bc.Block)
    env,    \* process-wide parameters: parent genesis hash, confirmation oracle
    gas,    \* the GasState
    err,    \* the error returned by the last operation ("nil" = no error)
    cache,  \* validationState.cache: entry id -> memoized error
    log,    \* the sequence of steps the last operation performed
    op,     \* the last operation applied, with its arguments and pre-state
    miner,    \* the Miner: numWorkers, started, quit, workerWg and who holds its mutex
    chans,    \* the channels made so far and which of them are closed
    ctrls,    \* the miningWorkerController goroutines, in order of launch
    workers,  \* the generateBlocks goroutines, in order of launch
    callers,  \* the goroutines that call the Miner's methods
    crash,    \* the run-time panic that ended the process ("none" = running)
    calls,    \* the last call of a method that ran its body, and how many ran
    sw,       \* a RawTxSigWitness: Quorum, Keys and Sigs
    args,     \* the argument list that Materialize appends to (*[][]byte)
    signing   \* the last call on the witness, its arguments and its pre-state

txVars == <<tx, block, env, gas, err, cache, log, op>>

minerVars == <<miner, chans, ctrls, workers, callers, crash, calls>>

witnessVars == <<sw, args, signing>>

vars == <<tx, block, env, gas, err, cache, log, op,
          miner, chans, ctrls, workers, callers, crash, calls,
          sw, args, signing>>

-----------------------------------------------------------------------------
(* Machine integers                                                        *)

IntBits == 6

MaxInt64 == 2^(IntBits - 1) - 1
MinInt64 == -(2^(IntBits - 1))
MaxUint64 == 2^IntBits - 1

\* Go's conversion int64(u) of a uint64: two's complement reinterpretation.
ToInt64(u) == IF u > MaxInt64 THEN u - 2^IntBits ELSE u

\* Go's wrapping int64 arithmetic: the exact result reduced into the range.
WrapInt64(n) == ((n - MinInt64) % (2^IntBits)) + MinInt64

\* Go's integer division truncates toward zero.
TruncDiv(a, b) ==
    LET q == (IF a < 0 THEN -a ELSE a) \div (IF b < 0 THEN -b ELSE b)
    IN  IF (a < 0) = (b < 0) THEN q ELSE -q

\* package math/checked: the result and whether it is exact; 0 when it is not.
AddInt64(a, b) ==
    IF (b > 0 /\ a > MaxInt64 - b) \/ (b < 0 /\ a < MinInt64 - b)
    THEN [v |-> 0, ok |-> FALSE]
    ELSE [v |-> a + b, ok |-> TRUE]

SubInt64(a, b) ==
    IF (b > 0 /\ a < MinInt64 + b) \/ (b < 0 /\ a > MaxInt64 + b)
    THEN [v |-> 0, ok |-> FALSE]
    ELSE [v |-> a - b, ok |-> TRUE]

MulInt64(a, b) ==
    IF a * b > MaxInt64 \/ a * b < MinInt64
    THEN [v |-> 0, ok |-> FALSE]
    ELSE [v |-> a * b, ok |-> TRUE]

DivInt64(a, b) ==
    IF b = 0 \/ (a = MinInt64 /\ b = -1)
    THEN [v |-> 0, ok |-> FALSE]
    ELSE [v |-> TruncDiv(a, b), ok |-> TRUE]

-----------------------------------------------------------------------------
(* Consensus parameters (package consensus), scaled to the integer width   *)

VMGasRate == 2
MaxGasAmount == 4
StorageGasRate == 2
DefaultGasCredit == 2
CoinbaseArbitrarySizeLimit == 2

-----------------------------------------------------------------------------
(* Errors: the kind of the error returned; wrapping keeps the kind.         *)

NoErr == "nil"

-----------------------------------------------------------------------------
(* GasState                                                                *)

\* &GasState{GasValid: false}
InitGasState ==
    [BTMValue |-> 0, GasLeft |-> 0, GasUsed |-> 0, GasValid |-> FALSE, StorageGas |-> 0]

\* The result of a GasState method: the receiver afterwards and the error.
GasRet(g, e) == [g |-> g, err |-> e]

\* setGas without the clamp to MaxGasAmount.
setGasNoClamp(g, BTMValue, txSize) ==
    IF BTMValue < 0 THEN GasRet(g, "ErrGasCalculate")
    ELSE
      LET d  == DivInt64(BTMValue, VMGasRate)
          g2 == [g EXCEPT !.BTMValue = BTMValue, !.GasLeft = d.v]
          m  == MulInt64(txSize, StorageGasRate)
          g4 == [g2 EXCEPT !.StorageGas = m.v]
      IN  IF ~d.ok \/ ~m.ok THEN GasRet(g4, "ErrGasCalculate") ELSE GasRet(g4, NoErr)

setGas(g, BTMValue, txSize) ==
    IF BTMValue < 0 THEN GasRet(g, "ErrGasCalculate")
    ELSE
      LET g1 == [g EXCEPT !.BTMValue = BTMValue]
          d  == DivInt64(BTMValue, VMGasRate)
          g2 == [g1 EXCEPT !.GasLeft = d.v]
      IN  IF ~d.ok THEN GasRet(g2, "ErrGasCalculate")
          ELSE
            LET g3 == IF g2.GasLeft > MaxGasAmount
                      THEN [g2 EXCEPT !.GasLeft = MaxGasAmount] ELSE g2
                m  == MulInt64(txSize, StorageGasRate)
                g4 == [g3 EXCEPT !.StorageGas = m.v]
            IN  IF ~m.ok THEN GasRet(g4, "ErrGasCalculate")
                ELSE GasRet(g4, NoErr)

\* setGasValid without the test for a negative GasLeft.
setGasValidNoSignTest(g) ==
    LET s  == SubInt64(g.GasLeft, g.StorageGas)
        g1 == [g EXCEPT !.GasLeft = s.v]
    IN  IF ~s.ok THEN GasRet(g1, "ErrGasCalculate")
        ELSE
          LET a  == AddInt64(g1.GasUsed, g1.StorageGas)
              g2 == [g1 EXCEPT !.GasUsed = a.v]
          IN  IF ~a.ok THEN GasRet(g2, "ErrGasCalculate")
              ELSE GasRet([g2 EXCEPT !.GasValid = TRUE], NoErr)

setGasValid(g) ==
    LET s  == SubInt64(g.GasLeft, g.StorageGas)
        g1 == [g EXCEPT !.GasLeft = s.v]
    IN  IF ~s.ok \/ g1.GasLeft < 0 THEN GasRet(g1, "ErrGasCalculate")
        ELSE
          LET a  == AddInt64(g1.GasUsed, g1.StorageGas)
              g2 == [g1 EXCEPT !.GasUsed = a.v]
          IN  IF ~a.ok THEN GasRet(g2, "ErrGasCalculate")
              ELSE GasRet([g2 EXCEPT !.GasValid = TRUE], NoErr)

updateUsage(g, gasLeft) ==
    IF gasLeft < 0 THEN GasRet(g, "ErrGasCalculate")
    ELSE
      LET s == SubInt64(g.GasLeft, gasLeft)
      IN  IF ~s.ok THEN GasRet(g, "ErrGasCalculate")
          ELSE
            LET g1 == [g EXCEPT !.GasUsed = WrapInt64(g.GasUsed + s.v),
                                !.GasLeft = gasLeft]
            IN  IF ~g1.GasValid /\ (g1.GasUsed > DefaultGasCredit \/ g1.StorageGas > g1.GasLeft)
                THEN GasRet(g1, "ErrOverGasCredit")
                ELSE GasRet(g1, NoErr)

-----------------------------------------------------------------------------
(* Entry graph (package bc)                                                *)

NilId == <<"nil", 0>>  \* a nil *bc.Hash
NilAsset == "nil"     \* a nil *bc.AssetAmount or a nil *bc.AssetID
BTMAssetID == "BTM"   \* *consensus.BTMAssetID

\* bc.EntryID(e): the content hash of the entry, the key under which
\* tx.Entries holds it.
EntryID(e) == e.id

\* (*bc.AssetAmount).Equal: an error when a value or an asset id is nil.
ValueEqual(a, b) ==
    IF a.AssetId = NilAsset \/ b.AssetId = NilAsset
    THEN [eq |-> FALSE, err |-> "ErrEmptyAssetAmount"]
    ELSE [eq |-> a.Amount = b.Amount /\ a.AssetId = b.AssetId, err |-> NoErr]

\* (*bc.Tx).Output(id): the entry when it exists and is an Output.
TxOutput(T, id) ==
    IF id \notin DOMAIN T.Entries THEN [e |-> NilId, err |-> "ErrMissingEntry"]
    ELSE IF T.Entries[id].typ # "Output" THEN [e |-> NilId, err |-> "ErrEntryType"]
    ELSE [e |-> T.Entries[id], err |-> NoErr]

\* (*bc.Tx).Spend(id): the entry when it exists and is a Spend.
TxSpend(T, id) ==
    IF id \notin DOMAIN T.Entries THEN [e |-> NilId, err |-> "ErrMissingEntry"]
    ELSE IF T.Entries[id].typ # "Spend" THEN [e |-> NilId, err |-> "ErrEntryType"]
    ELSE [e |-> T.Entries[id], err |-> NoErr]

\* vm.Verify(context, gasLeft): the program either fails or consumes its cost
\* out of the gas it is given and returns what is left.
vmVerify(prog, gasLeft) ==
    IF ~prog.OK THEN [gasLeft |-> gasLeft, err |-> "ErrVMFalseResult"]
    ELSE IF prog.Cost > gasLeft THEN [gasLeft |-> 0, err |-> "ErrRunLimitExceeded"]
    ELSE [gasLeft |-> gasLeft - prog.Cost, err |-> NoErr]

-----------------------------------------------------------------------------
(* The walk. The validationState is split into the fields that are copied   *)
(* at each descent (vs: tx, block, entryID, sourcePos, destPos, and the     *)
(* iteration order of the parity map) and the parts that are shared by      *)
(* reference (s: gasStatus, cache, and the log of steps).                   *)

Ret(s, e) == [s |-> s, err |-> e]

\* The fatal error of the Go runtime when a goroutine's stack exceeds its limit.
StackOverflow == "stack overflow"

\* A step of the walk, for the log: what was done, at which entry, with which number.
Ev(what, id, n) == [ev |-> what, id |-> id, n |-> n, r |-> "", arg |-> <<>>]

\* A step that yields an error value r.
EvR(what, id, r) == [ev |-> what, id |-> id, n |-> 0, r |-> r, arg |-> <<>>]

\* A step of the peg-in verifier, with the argument it was given.
EvA(what, id, arg) == [ev |-> what, id |-> id, n |-> 0, r |-> "", arg |-> <<arg>>]

Logged(s, ev) == [s EXCEPT !.log = Append(@, ev)]

\* Go's "if err != nil { return err }": the rest K of a function runs on the
\* state r.s only when the step r ended without an error.
OnOk(r, K(_)) == IF r.err # NoErr THEN r ELSE K(r.s)

\* The log with the steps of a run of the peg-in verifier added.
PeginLogged(s, id, steps) ==
    [s EXCEPT !.log = @ \o [k \in 1..Len(steps) |-> EvA(steps[k].what, id, steps[k].arg)]]

\* The end of checkValidSrc: the destination dest of the referenced entry
\* must refer back to the entry and slot that hold the source vs.
\* The checks of dest against the source with the position compared before
\* the reference.
checkSrcBackPositionFirst(vstate, vs, dest) ==
    IF dest.Position # vstate.sourcePos THEN "ErrMismatchedPosition"
    ELSE IF dest.Ref = NilId \/ dest.Ref # vstate.entryID THEN "ErrMismatchedReference"
    ELSE LET q == ValueEqual(dest, vs)
         IN  IF q.err # NoErr THEN "ErrMissingField"
             ELSE IF ~q.eq THEN "ErrMismatchedValue"
             ELSE NoErr

checkSrcBack(vstate, vs, dest) ==
    IF dest.Ref = NilId \/ dest.Ref # vstate.entryID THEN "ErrMismatchedReference"
    ELSE IF dest.Position # vstate.sourcePos THEN "ErrMismatchedPosition"
    ELSE LET q == ValueEqual(dest, vs)
         IN  IF q.err # NoErr THEN "ErrMissingField"
             ELSE IF ~q.eq THEN "ErrMismatchedValue"
             ELSE NoErr

\* The end of checkValidDest: the source src of the referenced entry must
\* refer back to the entry and slot that hold the destination vd.
checkDestBack(vs, vd, src) ==
    IF src.Ref = NilId \/ src.Ref # vs.entryID THEN "ErrMismatchedReference"
    ELSE IF src.Position # vs.destPos THEN "ErrMismatchedPosition"
    ELSE LET q == ValueEqual(src, vd)
         IN  IF q.err # NoErr THEN "ErrMissingField"
             ELSE IF ~q.eq THEN "ErrMismatchedValue"
             ELSE NoErr

\* checkSrcBack without the comparison of the two values.
checkSrcDestNoValue(vstate, vs, e) ==
    IF e.typ \in {"Coinbase", "Issuance", "Spend", "Claim", "Dpos"}
    THEN IF vs.Position # 0 THEN "ErrPosition"
         ELSE IF e.WitnessDestination.Ref # vstate.entryID THEN "ErrMismatchedReference"
         ELSE IF e.WitnessDestination.Position # vstate.sourcePos THEN "ErrMismatchedPosition"
         ELSE NoErr
    ELSE IF e.typ = "Mux"
    THEN IF vs.Position >= Len(e.WitnessDestinations) THEN "ErrPosition"
         ELSE checkSrcBack(vstate, vs, e.WitnessDestinations[vs.Position + 1])
    ELSE "ErrEntryType"

\* checkValidSrc after the referenced entry has been validated: the switch
\* on the referenced entry's type and the comparisons.
\* The type switch of checkValidSrc with a source that refers to a Dpos entry
\* passed without the checks against the entry's destination.
checkSrcDestDposUnchecked(vstate, vs, e) ==
    IF e.typ = "Dpos" THEN NoErr
    ELSE IF e.typ \in {"Coinbase", "Issuance", "Spend", "Claim"}
    THEN IF vs.Position # 0 THEN "ErrPosition"
         ELSE checkSrcBack(vstate, vs, e.WitnessDestination)
    ELSE IF e.typ = "Mux"
    THEN IF vs.Position >= Len(e.WitnessDestinations) THEN "ErrPosition"
         ELSE checkSrcBack(vstate, vs, e.WitnessDestinations[vs.Position + 1])
    ELSE "ErrEntryType"

checkSrcDest(vstate, vs, e) ==
    IF e.typ \in {"Coinbase", "Issuance", "Spend", "Claim", "Dpos"}
    THEN IF vs.Position # 0 THEN "ErrPosition"
         ELSE checkSrcBack(vstate, vs, e.WitnessDestination)
    ELSE IF e.typ = "Mux"
    THEN IF vs.Position >= Len(e.WitnessDestinations) THEN "ErrPosition"
         ELSE checkSrcBack(vstate, vs, e.WitnessDestinations[vs.Position + 1])
    ELSE "ErrEntryType"

checkValidDest(vs, s, vd) ==
    LET s1 == Logged(s, Ev("checkValidDest", vs.entryID, vs.destPos))
    IN
    IF vd.Nil THEN Ret(s1, "ErrMissingField")
    ELSE IF vd.Ref = NilId THEN Ret(s1, "ErrMissingField")
    ELSE IF vd.AssetId = NilAsset THEN Ret(s1, "ErrMissingField")
    ELSE IF vd.Ref \notin DOMAIN vs.tx.Entries THEN Ret(s1, "ErrMissingEntry")
    ELSE
      LET e == vs.tx.Entries[vd.Ref]
      IN  IF e.typ \in {"Output", "Retirement"}
          THEN IF vd.Position # 0 THEN Ret(s1, "ErrPosition")
               ELSE Ret(s1, checkDestBack(vs, vd, e.Source))
          ELSE IF e.typ = "Mux"
          THEN IF vd.Position >= Len(e.Sources) THEN Ret(s1, "ErrPosition")
               ELSE Ret(s1, checkDestBack(vs, vd, e.Sources[vd.Position + 1]))
          ELSE Ret(s1, "ErrEntryType")

-----------------------------------------------------------------------------
(* checkValid, Mux case: the per-asset accumulator                          *)

ParityGet(parity, a) == IF a \in DOMAIN parity THEN parity[a] ELSE 0

ParitySet(parity, a, v) == (a :> v) @@ parity

\* muxSumSources without the exemption of Dpos sources.
RECURSIVE muxSumSourcesWithDpos(_, _, _, _)
muxSumSourcesWithDpos(T, srcs, i, parity) ==
    IF i > Len(srcs) THEN [parity |-> parity, err |-> NoErr]
    ELSE
      LET src == srcs[i]
      IN  IF src.Nil \/ src.Ref = NilId THEN [parity |-> parity, err |-> "panic"]
          ELSE IF src.Ref \notin DOMAIN T.Entries
          THEN [parity |-> parity, err |-> "ErrMissingEntry"]
          ELSE IF src.AssetId = NilAsset THEN [parity |-> parity, err |-> "panic"]
          ELSE IF src.Amount > MaxInt64 THEN [parity |-> parity, err |-> "ErrOverflow"]
          ELSE
            LET sum == AddInt64(ParityGet(parity, src.AssetId), ToInt64(src.Amount))
            IN  IF ~sum.ok THEN [parity |-> parity, err |-> "ErrOverflow"]
                ELSE muxSumSourcesWithDpos(T, srcs, i + 1,
                                           ParitySet(parity, src.AssetId, sum.v))

\* muxSubDests with the amount test `>=` in place of `>`.
RECURSIVE muxSubDestsOffByOne(_, _, _)
muxSubDestsOffByOne(dests, i, parity) ==
    IF i > Len(dests) THEN [parity |-> parity, err |-> NoErr]
    ELSE
      LET dest == dests[i]
      IN  IF dest.Nil \/ dest.AssetId = NilAsset THEN [parity |-> parity, err |-> "panic"]
          ELSE IF dest.AssetId \notin DOMAIN parity
          THEN [parity |-> parity, err |-> "ErrNoSource"]
          ELSE IF dest.Amount >= MaxInt64 THEN [parity |-> parity, err |-> "ErrOverflow"]
          ELSE
            LET diff == SubInt64(parity[dest.AssetId], ToInt64(dest.Amount))
            IN  IF ~diff.ok THEN [parity |-> parity, err |-> "ErrOverflow"]
                ELSE muxSubDestsOffByOne(dests, i + 1,
                                         ParitySet(parity, dest.AssetId, diff.v))

\* The loop over e.Sources that adds each source's amount to parity.
RECURSIVE muxSumSources(_, _, _, _)
muxSumSources(T, srcs, i, parity) ==
    IF i > Len(srcs) THEN [parity |-> parity, err |-> NoErr]
    ELSE
      LET src == srcs[i]
      IN  IF src.Nil \/ src.Ref = NilId THEN [parity |-> parity, err |-> "panic"]
          ELSE IF src.Ref \notin DOMAIN T.Entries
          THEN [parity |-> parity, err |-> "ErrMissingEntry"]
          ELSE IF T.Entries[src.Ref].typ = "Dpos"
          THEN muxSumSources(T, srcs, i + 1, parity)
          ELSE IF src.AssetId = NilAsset THEN [parity |-> parity, err |-> "panic"]
          ELSE IF src.Amount > MaxInt64 THEN [parity |-> parity, err |-> "ErrOverflow"]
          ELSE
            LET sum == AddInt64(ParityGet(parity, src.AssetId), ToInt64(src.Amount))
            IN  IF ~sum.ok THEN [parity |-> parity, err |-> "ErrOverflow"]
                ELSE muxSumSources(T, srcs, i + 1, ParitySet(parity, src.AssetId, sum.v))

\* The loop over e.WitnessDestinations that subtracts each destination's amount.
RECURSIVE muxSubDests(_, _, _)
muxSubDests(dests, i, parity) ==
    IF i > Len(dests) THEN [parity |-> parity, err |-> NoErr]
    ELSE
      LET dest == dests[i]
      IN  IF dest.Nil \/ dest.AssetId = NilAsset THEN [parity |-> parity, err |-> "panic"]
          ELSE IF dest.AssetId \notin DOMAIN parity
          THEN [parity |-> parity, err |-> "ErrNoSource"]
          ELSE IF dest.Amount > MaxInt64 THEN [parity |-> parity, err |-> "ErrOverflow"]
          ELSE
            LET diff == SubInt64(parity[dest.AssetId], ToInt64(dest.Amount))
            IN  IF ~diff.ok THEN [parity |-> parity, err |-> "ErrOverflow"]
                ELSE muxSubDests(dests, i + 1, ParitySet(parity, dest.AssetId, diff.v))

\* muxParity with the balance test `amount > 0` in place of `amount != 0`.
RECURSIVE muxParityPositiveOnly(_, _, _, _, _)
muxParityPositiveOnly(T, s, parity, ord, k) ==
    IF k > Len(ord) THEN Ret(s, NoErr)
    ELSE IF ord[k] \notin DOMAIN parity THEN muxParityPositiveOnly(T, s, parity, ord, k + 1)
    ELSE IF ord[k] = BTMAssetID
    THEN LET r == setGas(s.gas, parity[ord[k]], ToInt64(T.Entries[T.ID].SerializedSize))
             s1 == Logged([s EXCEPT !.gas = r.g], Ev("setGas", T.ID, parity[ord[k]]))
         IN  IF r.err # NoErr THEN Ret(s1, r.err)
             ELSE muxParityPositiveOnly(T, s1, parity, ord, k + 1)
    ELSE IF parity[ord[k]] > 0 THEN Ret(s, "ErrUnbalanced")
    ELSE muxParityPositiveOnly(T, s, parity, ord, k + 1)

\* The loop over the parity map, in the order ord in which this run of the
\* program happens to iterate the map.
RECURSIVE muxParity(_, _, _, _, _)
muxParity(T, s, parity, ord, k) ==
    IF k > Len(ord) THEN Ret(s, NoErr)
    ELSE IF ord[k] \notin DOMAIN parity THEN muxParity(T, s, parity, ord, k + 1)
    ELSE IF ord[k] = BTMAssetID
    THEN LET r == setGas(s.gas, parity[ord[k]], ToInt64(T.Entries[T.ID].SerializedSize))
             s1 == Logged([s EXCEPT !.gas = r.g], Ev("setGas", T.ID, parity[ord[k]]))
         IN  IF r.err # NoErr THEN Ret(s1, r.err)
             ELSE muxParity(T, s1, parity, ord, k + 1)
    ELSE IF parity[ord[k]] # 0 THEN Ret(s, "ErrUnbalanced")
    ELSE muxParity(T, s, parity, ord, k + 1)

-----------------------------------------------------------------------------
(* Peg-in claim witness                                                    *)

MaxMoney == MaxInt64 - 1

\* consensus.MoneyRange
MoneyRange(amount) == amount >= 0 /\ amount <= MaxMoney

\* types.ValidateTxMerkleTreeProof: whether the hashes of the proof bundle m,
\* read with the given flags, reconstruct the header's merkle root with the
\* matched transaction ids; m.GoodFlags is the flag sequence that does.
ValidateTxMerkleTreeProof(m, flags) == m.Provable /\ flags = m.GoodFlags

\* pegin_contract.GetPeginContractPrograms, crypto.Sha256, vmutil.P2WSHProgram:
\* the witness-script-hash program derived from a claim script.
PeginControlProgram(claimScript) == <<"P2WSH", claimScript>>

\* checkPeginTx without the comparison of the control program.
checkPeginTxAmountOnly(rawTx, prevout, claimAmount, claimScript) ==
    IF prevout.Source.Position >= Len(rawTx.Outputs) THEN "panic"
    ELSE IF claimAmount # rawTx.Outputs[prevout.Source.Position + 1].Amount
    THEN "ErrPeginAmount"
    ELSE NoErr

checkPeginTx(rawTx, prevout, claimAmount, claimScript) ==
    IF prevout.Source.Position >= Len(rawTx.Outputs) THEN "panic"
    ELSE
      LET out == rawTx.Outputs[prevout.Source.Position + 1]
      IN  IF claimAmount # out.Amount THEN "ErrPeginAmount"
          ELSE IF out.ControlProgram # PeginControlProgram(claimScript)
          THEN "ErrPeginProgram"
          ELSE NoErr

\* The flags handed to the proof validator: `for flag := range Flags` ranges
\* over the indices of Flags, converted to uint8.
PeginFlags(m) == [i \in 1..Len(m.Flags) |-> (i - 1) % 256]

\* util.IsConfirmedBytomBlock: an error unless the parent chain reports the
\* block at this height buried deep enough.
IsConfirmedBytomBlock(E, height) ==
    IF height \in E.Confirmed THEN NoErr ELSE "ErrNotConfirmed"

\* A step of the verifier on the witness: what it called, with which argument.
PeginStep(what, arg) == [what |-> what, arg |-> arg]

\* What the verifier returns, with the steps it took on the way.
PeginRet(steps, e) == [err |-> e, steps |-> steps]

\* The steps of the verifier in the order of the code, up to the oracle.
PeginSteps(peginWitness) ==
    << PeginStep("ParseUint", 0),
       PeginStep("rawTx.UnmarshalText", 3),
       PeginStep("json.Unmarshal", 4),
       PeginStep("blockHeader.UnmarshalText", 4),
       PeginStep("ValidateTxMerkleTreeProof", PeginFlags(peginWitness[5])),
       PeginStep("checkPeginTx", 3),
       PeginStep("b.UnmarshalText", 1),
       PeginStep("IsConfirmedBytomBlock", peginWitness[5].Height) >>

\* The last step of the verifier with the oracle consulted whether or not
\* enforcement is on.
confirmPeginAlways(E, height) ==
    [asked |-> TRUE, err |-> IsConfirmedBytomBlock(E, height)]

\* The last step of the verifier: the oracle is consulted when util.ValidatePegin
\* is set.
confirmPegin(E, height) ==
    IF E.ValidatePegin
    THEN [asked |-> TRUE, err |-> IsConfirmedBytomBlock(E, height)]
    ELSE [asked |-> FALSE, err |-> NoErr]

IsValidPeginWitness(E, peginWitness, prevout) ==
    IF Len(peginWitness) # 5 THEN PeginRet(<<>>, "ErrPeginWitnessSize")
    ELSE
      LET did(n) == SubSeq(PeginSteps(peginWitness), 1, n)
      IN  IF ~peginWitness[1].ParseOK THEN PeginRet(did(1), "ErrParseUint")
          ELSE IF ~MoneyRange(peginWitness[1].Amount) THEN PeginRet(did(1), "ErrAmountRange")
          ELSE IF ~peginWitness[4].ParseOK THEN PeginRet(did(2), "ErrUnmarshalTx")
          ELSE IF ~peginWitness[5].ParseOK THEN PeginRet(did(3), "ErrUnmarshalMerkleBlock")
          ELSE IF ~peginWitness[5].HeaderOK THEN PeginRet(did(4), "ErrUnmarshalHeader")
          ELSE IF ~ValidateTxMerkleTreeProof(peginWitness[5], PeginFlags(peginWitness[5]))
          THEN PeginRet(did(5), "ErrMerkleProof")
          ELSE IF checkPeginTx(peginWitness[4], prevout, peginWitness[1].Amount,
                               peginWitness[3].Script) # NoErr
          THEN PeginRet(did(6), checkPeginTx(peginWitness[4], prevout,
                                             peginWitness[1].Amount, peginWitness[3].Script))
          ELSE IF peginWitness[2].Hash # E.ParentGenesisBlockHash
          THEN PeginRet(did(7), "ErrParentGenesis")
          ELSE IF confirmPegin(E, peginWitness[5].Height).asked
          THEN PeginRet(did(8), confirmPegin(E, peginWitness[5].Height).err)
          ELSE PeginRet(did(7), NoErr)

-----------------------------------------------------------------------------
(* checkValid and checkValidSrc                                            *)

RECURSIVE checkValid(_, _, _)
RECURSIVE checkEntry(_, _, _)
RECURSIVE checkValidSrc(_, _, _)
RECURSIVE headerResults(_, _, _, _)
RECURSIVE muxGasInputs(_, _, _)
RECURSIVE muxCheckSrcs(_, _, _, _)

\* The loop over e.WitnessDestinations that checks each destination edge.
RECURSIVE muxCheckDests(_, _, _, _)
muxCheckDests(vs, s, dests, i) ==
    IF i > Len(dests) THEN Ret(s, NoErr)
    ELSE OnOk(checkValidDest([vs EXCEPT !.destPos = i - 1], s, dests[i]),
              LAMBDA s1 : muxCheckDests(vs, s1, dests, i + 1))

\* setGasValid in the Mux case, called whether or not there are gas inputs.
muxSetGasValidAlways(vs, s) ==
    LET v == setGasValid(s.gas)
    IN  Ret(Logged([s EXCEPT !.gas = v.g], Ev("setGasValid", vs.entryID, 0)), v.err)

\* setGasValid in the Mux case, called when the transaction has gas inputs.
muxSetGasValid(vs, s) ==
    IF Len(vs.tx.GasInputIDs) > 0
    THEN LET v == setGasValid(s.gas)
         IN  Ret(Logged([s EXCEPT !.gas = v.g], Ev("setGasValid", vs.entryID, 0)), v.err)
    ELSE Ret(s, NoErr)

\* The Mux case after the parity loop with the source edges checked before
\* setGasValid.
muxEdgesSourcesFirst(vs, s, e) ==
    OnOk(muxGasInputs(vs, s, 1), LAMBDA s1 :
    OnOk(muxCheckDests(vs, s1, e.WitnessDestinations, 1), LAMBDA s2 :
    OnOk(muxCheckSrcs(vs, s2, e.Sources, 1), LAMBDA s3 :
    muxSetGasValid(vs, s3))))

\* The Mux case after the parity loop: gas inputs, destinations, setGasValid,
\* sources.
muxEdges(vs, s, e) ==
    OnOk(muxGasInputs(vs, s, 1), LAMBDA s1 :
    OnOk(muxCheckDests(vs, s1, e.WitnessDestinations, 1), LAMBDA s2 :
    OnOk(muxSetGasValid(vs, s2), LAMBDA s3 :
    muxCheckSrcs(vs, s3, e.Sources, 1))))

\* The sum of the sources and the subtraction of the destinations.
muxBalance(T, e) ==
    LET a == muxSumSources(T, e.Sources, 1, <<>>)
    IN  IF a.err # NoErr THEN a ELSE muxSubDests(e.WitnessDestinations, 1, a.parity)

checkMux(vs, s, e) ==
    LET b == muxBalance(vs.tx, e)
    IN  IF b.err # NoErr THEN Ret(s, b.err)
        ELSE OnOk(muxParity(vs.tx, s, b.parity, vs.ord, 1), LAMBDA s1 : muxEdges(vs, s1, e))

\* vm.Verify on a program with the gas left, then updateUsage with the gas
\* the virtual machine returns (the Issuance and the Spend case alike).
vmVerifyAndUpdateUsage(s, id, prog) ==
    LET v == vmVerify(prog, s.gas.GasLeft)
    IN  IF v.err # NoErr THEN Ret(Logged(s, Ev("vm.Verify", id, 0)), v.err)
        ELSE LET u == updateUsage(s.gas, v.gasLeft)
             IN  Ret(Logged(Logged([s EXCEPT !.gas = u.g], Ev("vm.Verify", id, 0)),
                            Ev("updateUsage", id, v.gasLeft)), u.err)

checkIssuance(vs, s, e) ==
    IF e.ComputedAssetId # e.Value.AssetId THEN Ret(s, "ErrMismatchedAssetID")
    ELSE OnOk(vmVerifyAndUpdateUsage(s, EntryID(e), e.IssuanceProgram), LAMBDA s1 :
              checkValidDest([vs EXCEPT !.destPos = 0], s1, e.WitnessDestination))

\* The end of the Spend and Claim cases: the value comparison with the spent
\* output and the destination edge.
\* The destination of a Spend or Claim checked without the comparison of the
\* values.
checkSpentValueUncompared(vs, s, e, spentOutput) ==
    IF spentOutput.Source.Nil THEN Ret(s, "panic")
    ELSE checkValidDest([vs EXCEPT !.destPos = 0], s, e.WitnessDestination)

checkSpentValue(vs, s, e, spentOutput) ==
    IF spentOutput.Source.Nil THEN Ret(s, "panic")
    ELSE
      LET q == ValueEqual(spentOutput.Source, e.WitnessDestination)
      IN  IF q.err # NoErr THEN Ret(s, q.err)
          ELSE IF ~q.eq THEN Ret(s, "ErrMismatchedValue")
          ELSE checkValidDest([vs EXCEPT !.destPos = 0], s, e.WitnessDestination)

checkSpend(vs, s, e) ==
    IF e.SpentOutputId = NilId THEN Ret(s, "ErrMissingField")
    ELSE
      LET so == TxOutput(vs.tx, e.SpentOutputId)
      IN  IF so.err # NoErr THEN Ret(s, so.err)
          ELSE OnOk(vmVerifyAndUpdateUsage(s, EntryID(e), so.e.ControlProgram), LAMBDA s1 :
                    checkSpentValue(vs, s1, e, so.e))

\* The Coinbase and the Claim case end by declaring the gas valid.
gasValid(s, id) == Ret(Logged([s EXCEPT !.gas.GasValid = TRUE], Ev("GasValid", id, 0)), NoErr)

\* The Coinbase case with the size of the arbitrary payload tested before
\* the asset.
checkCoinbaseSizeFirst(vs, s, e) ==
    IF vs.block.Nil \/ Len(vs.block.Transactions) = 0
       \/ vs.block.Transactions[1] # vs.tx.Ptr
    THEN Ret(s, "ErrWrongCoinbaseTransaction")
    ELSE IF e.Arbitrary > CoinbaseArbitrarySizeLimit
    THEN Ret(s, "ErrCoinbaseArbitraryOversize")
    ELSE IF e.WitnessDestination.AssetId # BTMAssetID THEN Ret(s, "ErrWrongCoinbaseAsset")
    ELSE
      OnOk(checkValidDest([vs EXCEPT !.destPos = 0], s, e.WitnessDestination),
           LAMBDA s1 : gasValid(s1, EntryID(e)))

checkCoinbase(vs, s, e) ==
    IF vs.block.Nil \/ Len(vs.block.Transactions) = 0
       \/ vs.block.Transactions[1] # vs.tx.Ptr
    THEN Ret(s, "ErrWrongCoinbaseTransaction")
    ELSE IF e.WitnessDestination.Nil \/ e.WitnessDestination.AssetId = NilAsset
    THEN Ret(s, "panic")
    ELSE IF e.WitnessDestination.AssetId # BTMAssetID THEN Ret(s, "ErrWrongCoinbaseAsset")
    ELSE IF e.Arbitrary > CoinbaseArbitrarySizeLimit
    THEN Ret(s, "ErrCoinbaseArbitraryOversize")
    ELSE
      OnOk(checkValidDest([vs EXCEPT !.destPos = 0], s, e.WitnessDestination),
           LAMBDA s1 : gasValid(s1, EntryID(e)))

\* The call of the peg-in verifier from the Claim case.
verifyPegin(vs, s, e, spentOutput) ==
    Ret(PeginLogged(Logged(s, Ev("IsValidPeginWitness", EntryID(e), 0)), EntryID(e),
                    IsValidPeginWitness(vs.env, e.Peginwitness, spentOutput).steps),
        IsValidPeginWitness(vs.env, e.Peginwitness, spentOutput).err)

\* The Claim case with stacks of four elements let through to the verifier.
checkClaimShortStack(vs, s, e) ==
    IF e.SpentOutputId = NilId THEN Ret(s, "ErrMissingField")
    ELSE
      LET so == TxOutput(vs.tx, e.SpentOutputId)
      IN  IF so.err # NoErr THEN Ret(s, so.err)
          ELSE IF Len(e.Peginwitness) < 4 \/ e.Peginwitness[2].Nil \/ so.e.Source.Nil
          THEN Ret(s, "ErrPeginNoWitness")
          ELSE
            OnOk(verifyPegin(vs, s, e, so.e), LAMBDA s1 :
            OnOk(checkSpentValue(vs, s1, e, so.e), LAMBDA s2 :
            gasValid(s2, EntryID(e))))

\* The Claim case.
checkClaim(vs, s, e) ==
    IF e.SpentOutputId = NilId THEN Ret(s, "ErrMissingField")
    ELSE
      LET so == TxOutput(vs.tx, e.SpentOutputId)
      IN  IF so.err # NoErr THEN Ret(s, so.err)
          ELSE IF Len(e.Peginwitness) < 5 \/ e.Peginwitness[2].Nil \/ so.e.Source.Nil
          THEN Ret(s, "ErrPeginNoWitness")
          ELSE
            OnOk(verifyPegin(vs, s, e, so.e), LAMBDA s1 :
            OnOk(checkSpentValue(vs, s1, e, so.e), LAMBDA s2 :
            gasValid(s2, EntryID(e))))

\* The switch of checkValid on the entry's type.
checkEntry(vs, s, e) ==
    CASE e.typ = "TxHeader" ->
           OnOk(headerResults(vs, s, e, 1), LAMBDA s1 :
                Ret(s1, IF e.Version = 1 /\ Len(e.ResultIds) = 0
                        THEN "ErrEmptyResults" ELSE NoErr))
      [] e.typ = "Mux" -> checkMux(vs, s, e)
      [] e.typ \in {"Output", "Retirement"} ->
           checkValidSrc([vs EXCEPT !.sourcePos = 0], s, e.Source)
      [] e.typ = "Issuance" -> checkIssuance(vs, s, e)
      [] e.typ = "Spend" -> checkSpend(vs, s, e)
      [] e.typ = "Coinbase" -> checkCoinbase(vs, s, e)
      [] e.typ = "Claim" -> checkClaim(vs, s, e)
      [] e.typ = "Dpos" -> Ret(s, NoErr)
      [] OTHER -> Ret(s, "ErrUnexpectedType")

\* The deferred function of checkValid: the result is stored in the cache.
storeResult(entryID, r) ==
    Ret(Logged([r.s EXCEPT !.cache = (entryID :> r.err) @@ @],
               EvR("done", entryID, r.err)), r.err)

\* checkValid without the cache lookup.
checkValidNoCache(vs, s, e) ==
    storeResult(EntryID(e), checkEntry(vs, Logged(s, Ev("check", EntryID(e), 0)), e))

\* The frames of checkValid on the goroutine's stack: the calls that have begun
\* their checks and whose deferred store has not run yet.
Depth(s) ==
    Cardinality({k \in 1..Len(s.log) : s.log[k].ev = "check"})
      - Cardinality({k \in 1..Len(s.log) : s.log[k].ev = "done"})

\* The number of nested calls of checkValid the goroutine's stack holds; the Go
\* runtime ends the process ("stack overflow") when a call exceeds its stack.
MaxDepth == 8

\* checkValid whose cache holds an entry from the moment its checks begin.
checkValidMarked(vs, s, e) ==
    LET entryID == EntryID(e)
    IN  IF entryID \in DOMAIN s.cache
        THEN Ret(Logged(s, EvR("cached", entryID, s.cache[entryID])), s.cache[entryID])
        ELSE storeResult(entryID,
               checkEntry(vs, Logged([s EXCEPT !.cache = (entryID :> NoErr) @@ @],
                                     Ev("check", entryID, 0)), e))

\* checkValid: the cache lookup, the type-specific checks, and the deferred
\* store of the result in the cache.
checkValid(vs, s, e) ==
    LET entryID == EntryID(e)
    IN  IF entryID \in DOMAIN s.cache
        THEN Ret(Logged(s, EvR("cached", entryID, s.cache[entryID])), s.cache[entryID])
        ELSE IF Depth(s) >= MaxDepth
        THEN Ret(s, StackOverflow)
        ELSE storeResult(entryID, checkEntry(vs, Logged(s, Ev("check", entryID, 0)), e))

\* The entry a missing key of tx.Entries yields: a nil bc.Entry.
NilEntry == [typ |-> "nil", id |-> NilId]

\* The loop of the TxHeader case over e.ResultIds.
headerResults(vs, s, e, i) ==
    IF i > Len(e.ResultIds) THEN Ret(s, NoErr)
    ELSE
      LET resID == e.ResultIds[i]
          resultEntry == IF resID \in DOMAIN vs.tx.Entries
                         THEN vs.tx.Entries[resID] ELSE NilEntry
      IN  OnOk(checkValid([vs EXCEPT !.entryID = resID], s, resultEntry),
               LAMBDA s1 : headerResults(vs, s1, e, i + 1))

\* The loop of the Mux case over vs.tx.GasInputIDs.
muxGasInputs(vs, s, k) ==
    IF k > Len(vs.tx.GasInputIDs) THEN Ret(s, NoErr)
    ELSE
      LET BTMInputID == vs.tx.GasInputIDs[k]
      IN  IF BTMInputID \notin DOMAIN vs.tx.Entries THEN Ret(s, "ErrMissingEntry")
          ELSE
            OnOk(checkValid([vs EXCEPT !.entryID = BTMInputID], s,
                            vs.tx.Entries[BTMInputID]),
                 LAMBDA s1 : muxGasInputs(vs, s1, k + 1))

\* The loop of the Mux case over e.Sources that checks each source edge.
muxCheckSrcs(vs, s, srcs, i) ==
    IF i > Len(srcs) THEN Ret(s, NoErr)
    ELSE OnOk(checkValidSrc([vs EXCEPT !.sourcePos = i - 1], s, srcs[i]),
              LAMBDA s1 : muxCheckSrcs(vs, s1, srcs, i + 1))

checkValidSrc(vstate, s, src) ==
    LET s1 == Logged(s, Ev("checkValidSrc", vstate.entryID, vstate.sourcePos))
    IN
    IF src.Nil THEN Ret(s1, "ErrMissingField")
    ELSE IF src.Ref = NilId THEN Ret(s1, "ErrMissingField")
    ELSE IF src.AssetId = NilAsset THEN Ret(s1, "ErrMissingField")
    ELSE IF src.Ref \notin DOMAIN vstate.tx.Entries THEN Ret(s1, "ErrMissingEntry")
    ELSE
      OnOk(checkValid([vstate EXCEPT !.entryID = src.Ref], s1, vstate.tx.Entries[src.Ref]),
           LAMBDA s2 : Ret(s2, checkSrcDest(vstate, src, vstate.tx.Entries[src.Ref])))

-----------------------------------------------------------------------------
(* ValidateTx and its pre-checks                                           *)

\* The TxHeader embedded in the bc.Tx.
TxHeader(T) == T.Entries[T.ID]

\* The loop of checkStandardTx over tx.GasInputIDs.
RECURSIVE standardGasInputs(_, _)
standardGasInputs(T, k) ==
    IF k > Len(T.GasInputIDs) THEN NoErr
    ELSE
      LET spend == TxSpend(T, T.GasInputIDs[k])
      IN  IF spend.err # NoErr THEN spend.err
          ELSE IF spend.e.SpentOutputId = NilId THEN "panic"
          ELSE
            LET spentOutput == TxOutput(T, spend.e.SpentOutputId)
            IN  IF spentOutput.err # NoErr THEN spentOutput.err
                ELSE IF ~spentOutput.e.ControlProgram.P2W THEN "ErrNotStandardTx"
                ELSE standardGasInputs(T, k + 1)

\* The loop over tx.ResultIds with the program of every Output tested,
\* whatever its asset.
RECURSIVE standardResultsAnyAsset(_, _)
standardResultsAnyAsset(T, i) ==
    IF i > Len(TxHeader(T).ResultIds) THEN NoErr
    ELSE
      LET id == TxHeader(T).ResultIds[i]
      IN  IF id \notin DOMAIN T.Entries THEN "ErrMissingEntry"
          ELSE
            LET e == T.Entries[id]
            IN  IF e.typ # "Output" THEN standardResultsAnyAsset(T, i + 1)
                ELSE IF ~e.ControlProgram.P2W THEN "ErrNotStandardTx"
                ELSE standardResultsAnyAsset(T, i + 1)

\* The loop of checkStandardTx over tx.ResultIds.
RECURSIVE standardResults(_, _)
standardResults(T, i) ==
    IF i > Len(TxHeader(T).ResultIds) THEN NoErr
    ELSE
      LET id == TxHeader(T).ResultIds[i]
      IN  IF id \notin DOMAIN T.Entries THEN "ErrMissingEntry"
          ELSE
            LET e == T.Entries[id]
            IN  IF e.typ # "Output" THEN standardResults(T, i + 1)
                ELSE IF e.Source.Nil \/ e.Source.AssetId = NilAsset THEN "panic"
                ELSE IF e.Source.AssetId # BTMAssetID THEN standardResults(T, i + 1)
                ELSE IF ~e.ControlProgram.P2W THEN "ErrNotStandardTx"
                ELSE standardResults(T, i + 1)

checkStandardTx(T) ==
    LET g == standardGasInputs(T, 1)
    IN  IF g # NoErr THEN g ELSE standardResults(T, 1)

checkTimeRange(T, B) ==
    IF TxHeader(T).TimeRange = 0 THEN NoErr
    ELSE IF TxHeader(T).TimeRange < B.Height THEN "ErrBadTimeRange"
    ELSE NoErr

\* The shared parts of a fresh validationState.
InitWalk == [gas |-> InitGasState, cache |-> <<>>, log |-> <<>>]

\* ValidateTx with the size tested before the version.
ValidateTxSizeFirst(T, B, E, ord) ==
    IF B.Nil THEN Ret(InitWalk, "panic")
    ELSE IF TxHeader(T).SerializedSize = 0 THEN Ret(InitWalk, "ErrWrongTransactionSize")
    ELSE IF B.Version = 1 /\ TxHeader(T).Version # 1 THEN Ret(InitWalk, "ErrTxVersion")
    ELSE
      LET t == checkTimeRange(T, B)
      IN  IF t # NoErr THEN Ret(InitWalk, t)
          ELSE
            LET c == checkStandardTx(T)
            IN  IF c # NoErr THEN Ret(Logged(InitWalk, Ev("checkStandardTx", T.ID, 0)), c)
                ELSE checkValid([tx |-> T, block |-> B, env |-> E, ord |-> ord,
                                 entryID |-> T.ID, sourcePos |-> 0, destPos |-> 0],
                                Logged(InitWalk, Ev("checkStandardTx", T.ID, 0)),
                                TxHeader(T))

ValidateTx(T, B, E, ord) ==
    IF B.Nil THEN Ret(InitWalk, "panic")
    ELSE IF B.Version = 1 /\ TxHeader(T).Version # 1 THEN Ret(InitWalk, "ErrTxVersion")
    ELSE IF TxHeader(T).SerializedSize = 0 THEN Ret(InitWalk, "ErrWrongTransactionSize")
    ELSE
      LET t == checkTimeRange(T, B)
      IN  IF t # NoErr THEN Ret(InitWalk, t)
          ELSE
            LET c == checkStandardTx(T)
            IN  IF c # NoErr THEN Ret(Logged(InitWalk, Ev("checkStandardTx", T.ID, 0)), c)
                ELSE checkValid([tx |-> T, block |-> B, env |-> E, ord |-> ord,
                                 entryID |-> T.ID, sourcePos |-> 0, destPos |-> 0],
                                Logged(InitWalk, Ev("checkStandardTx", T.ID, 0)),
                                TxHeader(T))

-----------------------------------------------------------------------------
(* Transactions: the entries types.MapTx builds for a transaction with the  *)
(* given inputs and outputs. Every input feeds the one Mux, and the Mux     *)
(* feeds every output; the header's results are the outputs.                *)

TxID == <<"tx", 0>>
MuxID == <<"mux", 0>>
InID(i) == <<"in", i>>
OutID(j) == <<"out", j>>
PrevID(i) == <<"prevout", i>>        \* the output an input spends
ForeignID == <<"foreign", 0>>        \* an entry of another transaction

Edge(ref, asset, amount, pos) ==
    [Nil |-> FALSE, Ref |-> ref, AssetId |-> asset, Amount |-> amount, Position |-> pos]

\* A verification program: whether it is a segregated-witness program,
\* whether it succeeds, and what it costs to run.
Prog(p2w, ok, cost) == [P2W |-> p2w, OK |-> ok, Cost |-> cost]

BlankEntry(typ, id) ==
    [typ |-> typ, id |-> id,
     Version |-> 0, SerializedSize |-> 0, TimeRange |-> 0, ResultIds |-> <<>>,
     Sources |-> <<>>, WitnessDestinations |-> <<>>,
     Source |-> Edge(NilId, NilAsset, 0, 0),
     WitnessDestination |-> Edge(NilId, NilAsset, 0, 0),
     SpentOutputId |-> NilId,
     ControlProgram |-> Prog(TRUE, TRUE, 0), IssuanceProgram |-> Prog(TRUE, TRUE, 0),
     Value |-> [AssetId |-> NilAsset, Amount |-> 0], ComputedAssetId |-> NilAsset,
     Arbitrary |-> 0, Peginwitness |-> <<>>]

\* One field of one edge of the transaction set to another value.
NoMut == [site |-> "none", idx |-> 0, field |-> "Ref", val |-> NilId]

\* The edges as types.MapTx builds them: each source is the mirror image of
\* the destination it draws from.
BaseEdge(ins, outs, site, idx) ==
    CASE site = "inDst"   -> Edge(MuxID, ins[idx].asset, ins[idx].amount, idx - 1)
      [] site = "muxSrc"  -> Edge(InID(idx), ins[idx].asset, ins[idx].amount, 0)
      [] site = "muxDst"  -> Edge(OutID(idx), outs[idx].asset, outs[idx].amount, 0)
      [] site = "outSrc"  -> Edge(MuxID, outs[idx].asset, outs[idx].amount, idx - 1)
      [] site = "prevSrc" -> Edge(ForeignID, ins[idx].asset, ins[idx].amount, 0)

EdgeOf(p, site, idx) ==
    IF p.mut.site = site /\ p.mut.idx = idx
    THEN [BaseEdge(p.ins, p.outs, site, idx) EXCEPT ![p.mut.field] = p.mut.val]
    ELSE BaseEdge(p.ins, p.outs, site, idx)

\* The entry of input i.
InputEntry(p, i) ==
    LET d == p.ins[i]
    IN  [BlankEntry(d.typ, InID(i)) EXCEPT
           !.WitnessDestination = EdgeOf(p, "inDst", i),
           !.SpentOutputId = IF d.typ \in {"Spend", "Claim"} THEN PrevID(i) ELSE NilId,
           !.IssuanceProgram = Prog(TRUE, d.ok, d.cost),
           !.Value = [AssetId |-> d.asset, Amount |-> d.amount],
           !.ComputedAssetId = d.asset,
           !.Arbitrary = d.arb,
           !.Peginwitness = d.witness]

\* The output that input i spends: an entry of an earlier transaction, whose
\* source is not part of this one.
PrevoutEntry(p, i) ==
    LET d == p.ins[i]
    IN  [BlankEntry("Output", PrevID(i)) EXCEPT
           !.Source = EdgeOf(p, "prevSrc", i),
           !.ControlProgram = Prog(d.p2w, d.ok, d.cost)]

OutputEntry(p, j) ==
    [BlankEntry(p.outs[j].typ, OutID(j)) EXCEPT
       !.Source = EdgeOf(p, "outSrc", j),
       !.ControlProgram = Prog(p.outs[j].p2w, TRUE, 0)]

MuxEntry(p) ==
    [BlankEntry("Mux", MuxID) EXCEPT
       !.Sources = [i \in 1..Len(p.ins) |-> EdgeOf(p, "muxSrc", i)],
       !.WitnessDestinations = [j \in 1..Len(p.outs) |-> EdgeOf(p, "muxDst", j)]]

HeaderEntry(h, outs) ==
    [BlankEntry("TxHeader", TxID) EXCEPT
       !.Version = h.Version, !.SerializedSize = h.SerializedSize,
       !.TimeRange = h.TimeRange,
       !.ResultIds = [j \in 1..Len(outs) |-> OutID(j)]]

\* The indices of the inputs that pay gas: the spends of the native asset.
RECURSIVE GasInputs(_, _)
GasInputs(ins, i) ==
    IF i > Len(ins) THEN <<>>
    ELSE IF ins[i].typ = "Spend" /\ ins[i].asset = BTMAssetID
    THEN <<InID(i)>> \o GasInputs(ins, i + 1)
    ELSE GasInputs(ins, i + 1)

\* Mut is not part of the bc.Tx: it records which edge, if any, differs from
\* what MapTx builds.
MapTx(p) ==
    LET ids == {TxID, MuxID} \cup {InID(i) : i \in 1..Len(p.ins)}
                 \cup {OutID(j) : j \in 1..Len(p.outs)}
                 \cup {PrevID(i) : i \in {k \in 1..Len(p.ins) : p.ins[k].typ \in {"Spend", "Claim"}}}
    IN  [ID |-> TxID, Ptr |-> "tx", Mut |-> p.mut,
         GasInputIDs |-> GasInputs(p.ins, 1),
         Entries |-> [id \in ids |->
            IF id = TxID THEN HeaderEntry(p.hdr, p.outs)
            ELSE IF id = MuxID THEN MuxEntry(p)
            ELSE IF id[1] = "in" THEN InputEntry(p, id[2])
            ELSE IF id[1] = "out" THEN OutputEntry(p, id[2])
            ELSE PrevoutEntry(p, id[2])]]

-----------------------------------------------------------------------------
(* The miner: Start, Stop, SetNumWorkers, the controller and its workers   *)

defaultNumWorkers == 1

MaxCalls == 3        \* the most calls of the Miner's methods in a run
MaxNumWorkers == 2   \* the most workers a caller asks for

\* The goroutines that call the Miner's methods.
Callers == {"a", "b"}

\* The arguments given to SetNumWorkers.
NumWorkersArgs == -1..MaxNumWorkers

\* A nil channel; the channels made are numbered from 1.
NoChan == 0

\* Nobody holds the mutex.
NoCaller == "none"

\* Go's wrapping uint64 arithmetic.
WrapUint64(n) == n % (MaxUint64 + 1)

\* NewMiner
NewMinerState ==
    [numWorkers |-> defaultNumWorkers, started |-> FALSE, quit |-> NoChan,
     workerWg |-> 0, mu |-> NoCaller]

\* A controller that has not run yet: go m.miningWorkerController().
NewController ==
    [pc |-> "launchWorkers", runningWorkers |-> <<>>, quit |-> NoChan,
     numRunning |-> 0, i |-> 0]

\* A worker that has not run yet: go m.generateBlocks(quit).
NewWorker(quit) == [pc |-> "for", quit |-> quit]

\* The part of the process that the Miner's methods work on.
MinerState == [miner |-> miner, chans |-> chans, ctrls |-> ctrls, crash |-> crash]

\* close(c): a run-time panic on a nil or closed channel.
Close(st, c) ==
    IF c = NoChan THEN [st EXCEPT !.crash = "close of nil channel"]
    ELSE IF c \in st.chans.closed THEN [st EXCEPT !.crash = "close of closed channel"]
    ELSE [st EXCEPT !.chans.closed = @ \cup {c}]

\* Start without the test of m.started.
StartAlways(st) ==
    [st EXCEPT !.miner.quit = st.chans.made + 1,
               !.chans.made = @ + 1,
               !.ctrls = Append(@, NewController),
               !.miner.started = TRUE]

\* The body of Start, under the mutex.
Start(st) ==
    IF st.miner.started THEN st
    ELSE [st EXCEPT !.miner.quit = st.chans.made + 1,
                    !.chans.made = @ + 1,
                    !.ctrls = Append(@, NewController),
                    !.miner.started = TRUE]

\* The body of Stop, under the mutex.
Stop(st) ==
    IF ~st.miner.started THEN st
    ELSE [Close(st, st.miner.quit) EXCEPT !.miner.started = FALSE]

\* The record of a call whose body ran: its name, caller and argument, what it
\* returned, the state it ran on, and whether it changed that state.
Called(name, c, arg, ret, st) ==
    [n |-> calls.n + 1, name |-> name, caller |-> c, arg |-> arg, ret |-> ret,
     pre |-> MinerState, effect |-> st # MinerState,
     effective |-> IF st # MinerState /\ name \in {"Start", "Stop"} THEN name
                   ELSE calls.effective]

\* What a method's body leaves behind.
Ran(st, called) ==
    /\ miner' = st.miner
    /\ chans' = st.chans
    /\ ctrls' = st.ctrls
    /\ crash' = st.crash
    /\ calls' = called

\* A goroutine can take the mutex and run.
CanLock == crash = "none" /\ miner.mu = NoCaller

\* A goroutine may begin another call.
CanCall(c) == callers[c].pc = "idle" /\ calls.n < MaxCalls

\* The process before any call: the Miner as NewMiner returns it.
NewMiner ==
    /\ miner = NewMinerState
    /\ chans = [made |-> 0, closed |-> {}]
    /\ ctrls = <<>>
    /\ workers = <<>>
    /\ callers = [c \in Callers |-> [pc |-> "idle", arg |-> 0]]
    /\ crash = "none"
    /\ calls = [n |-> 0, name |-> "none", caller |-> NoCaller, arg |-> 0, ret |-> "",
                pre |-> [miner |-> NewMinerState, chans |-> [made |-> 0, closed |-> {}],
                         ctrls |-> <<>>, crash |-> "none"],
                effect |-> FALSE, effective |-> "none"]

\* m.Start()
CallStart(c) ==
    /\ CanCall(c) /\ CanLock
    /\ Ran(Start(MinerState), Called("Start", c, 0, "", Start(MinerState)))
    /\ UNCHANGED <<workers, callers, txVars, witnessVars>>

\* m.Stop()
CallStop(c) ==
    /\ CanCall(c) /\ CanLock
    /\ Ran(Stop(MinerState), Called("Stop", c, 0, "", Stop(MinerState)))
    /\ UNCHANGED <<workers, callers, txVars, witnessVars>>

\* m.IsMining()
CallIsMining(c) ==
    /\ CanCall(c) /\ CanLock
    /\ Ran(MinerState, Called("IsMining", c, 0, miner.started, MinerState))
    /\ UNCHANGED <<workers, callers, txVars, witnessVars>>

\* m.NumWorkers()
CallNumWorkers(c) ==
    /\ CanCall(c) /\ CanLock
    /\ Ran(MinerState, Called("NumWorkers", c, 0, miner.numWorkers, MinerState))
    /\ UNCHANGED <<workers, callers, txVars, witnessVars>>

\* m.SetNumWorkers(0), up to its m.Lock(): the call of m.Stop().
SetNumWorkersStop(c) ==
    /\ CanCall(c) /\ CanLock
    /\ Ran(Stop(MinerState), Called("Stop", c, 0, "", Stop(MinerState)))
    /\ callers' = [callers EXCEPT ![c] = [pc |-> "Lock", arg |-> 0]]
    /\ UNCHANGED <<workers, txVars, witnessVars>>

\* The number of workers that SetNumWorkers stores for its argument.
NumWorkersFor(numWorkers) == IF numWorkers < 0 THEN defaultNumWorkers ELSE numWorkers

\* m.SetNumWorkers(numWorkers) from its m.Lock() on: the number is stored, and
\* when the miner is started the caller goes on to notify the controller, with
\* the mutex held.
SetNumWorkersStore(c, numWorkers) ==
    /\ CanLock
    /\ miner' = [miner EXCEPT !.numWorkers = NumWorkersFor(numWorkers),
                              !.mu = IF miner.started THEN c ELSE NoCaller]
    /\ callers' = [callers EXCEPT ![c] =
                     [pc |-> IF miner.started THEN "send" ELSE "idle", arg |-> numWorkers]]
    /\ UNCHANGED <<chans, ctrls, workers, crash, txVars, witnessVars>>

\* SetNumWorkers with an argument other than 0 begins at its m.Lock().
SetNumWorkersBegin(c) ==
    /\ CanCall(c)
    /\ \E numWorkers \in NumWorkersArgs \ {0} :
         /\ SetNumWorkersStore(c, numWorkers)
         /\ calls' = Called("SetNumWorkers", c, numWorkers, "",
                            [MinerState EXCEPT !.miner.numWorkers = NumWorkersFor(numWorkers)])

\* SetNumWorkers(0) goes on after m.Stop() has returned.
SetNumWorkersLock(c) ==
    /\ callers[c].pc = "Lock"
    /\ SetNumWorkersStore(c, callers[c].arg)
    /\ UNCHANGED calls

\* m.updateNumWorkers <- struct{}{} meets the controller's receive in its
\* select; SetNumWorkers returns and its deferred m.Unlock() runs.
Notify(c, k) ==
    /\ crash = "none"
    /\ callers[c].pc = "send"
    /\ ctrls[k].pc = "select"
    /\ callers' = [callers EXCEPT ![c].pc = "idle"]
    /\ miner' = [miner EXCEPT !.mu = NoCaller]
    /\ ctrls' = [ctrls EXCEPT ![k].pc = "equal",
                              ![k].numRunning = Len(ctrls[k].runningWorkers)]
    /\ UNCHANGED <<chans, workers, crash, calls, txVars, witnessVars>>

\* launchWorkers(numWorkers) by controller k: a quit channel, a workerWg.Add(1)
\* and a worker for each. A count beyond any that a caller can ask for comes
\* from a wrapped subtraction: the loop then goes on launching workers, of
\* which the first is kept here, and the controller does not get out of it.
launchWorkers(k, numWorkers) ==
    LET n == IF numWorkers > MaxNumWorkers THEN 1 ELSE numWorkers
        made == [j \in 1..n |-> chans.made + j]
    IN  /\ chans' = [chans EXCEPT !.made = @ + n]
        /\ workers' = workers \o [j \in 1..n |-> NewWorker(made[j])]
        /\ miner' = [miner EXCEPT !.workerWg = @ + n]
        /\ ctrls' = [ctrls EXCEPT
                       ![k].runningWorkers = @ \o made,
                       ![k].pc = IF numWorkers > MaxNumWorkers THEN "launching" ELSE "for"]

\* The controller begins: launchWorkers(m.numWorkers).
ControllerBegin(k) ==
    /\ crash = "none"
    /\ ctrls[k].pc = "launchWorkers"
    /\ launchWorkers(k, miner.numWorkers)
    /\ UNCHANGED <<callers, crash, calls, txVars, witnessVars>>

\* The controller enters its select: m.quit is read.
ControllerSelect(k) ==
    /\ crash = "none"
    /\ ctrls[k].pc = "for"
    /\ ctrls' = [ctrls EXCEPT ![k].pc = "select", ![k].quit = miner.quit]
    /\ UNCHANGED <<miner, chans, workers, callers, crash, calls, txVars, witnessVars>>

\* case <-m.quit: every running worker's channel is closed.
ControllerQuit(k) ==
    /\ crash = "none"
    /\ ctrls[k].pc = "select"
    /\ ctrls[k].quit \in chans.closed
    /\ chans' = [chans EXCEPT !.closed =
                   @ \cup {ctrls[k].runningWorkers[j] : j \in 1..Len(ctrls[k].runningWorkers)}]
    /\ ctrls' = [ctrls EXCEPT ![k].pc = "Wait"]
    /\ UNCHANGED <<miner, workers, callers, crash, calls, txVars, witnessVars>>

\* if m.numWorkers == numRunning { continue }
ControllerEqual(k) ==
    /\ crash = "none"
    /\ ctrls[k].pc = "equal"
    /\ ctrls' = [ctrls EXCEPT ![k].pc =
                   IF miner.numWorkers = ctrls[k].numRunning THEN "for" ELSE "greater"]
    /\ UNCHANGED <<miner, chans, workers, callers, crash, calls, txVars, witnessVars>>

\* if m.numWorkers > numRunning; otherwise i := numRunning - 1.
ControllerGreater(k) ==
    /\ crash = "none"
    /\ ctrls[k].pc = "greater"
    /\ ctrls' = [ctrls EXCEPT
                   ![k].pc = IF miner.numWorkers > ctrls[k].numRunning THEN "more" ELSE "less",
                   ![k].i = WrapUint64(ctrls[k].numRunning - 1)]
    /\ UNCHANGED <<miner, chans, workers, callers, crash, calls, txVars, witnessVars>>

\* launchWorkers(m.numWorkers - numRunning); continue
ControllerMore(k) ==
    /\ crash = "none"
    /\ ctrls[k].pc = "more"
    /\ launchWorkers(k, WrapUint64(miner.numWorkers - ctrls[k].numRunning))
    /\ UNCHANGED <<callers, crash, calls, txVars, witnessVars>>

\* One turn of `for i := numRunning - 1; i >= m.numWorkers; i--`, in which
\* runningWorkers[i] is closed and the slice cut to i.
ControllerLess(k) ==
    /\ crash = "none"
    /\ ctrls[k].pc = "less"
    /\ IF ctrls[k].i < miner.numWorkers
       THEN /\ ctrls' = [ctrls EXCEPT ![k].pc = "for"]
            /\ UNCHANGED <<chans, crash>>
       ELSE IF ctrls[k].i >= Len(ctrls[k].runningWorkers)
       THEN /\ crash' = "index out of range"
            /\ UNCHANGED <<chans, ctrls>>
       ELSE /\ chans' = Close(MinerState, ctrls[k].runningWorkers[ctrls[k].i + 1]).chans
            /\ crash' = Close(MinerState, ctrls[k].runningWorkers[ctrls[k].i + 1]).crash
            /\ ctrls' = [ctrls EXCEPT
                           ![k].runningWorkers = SubSeq(@, 1, ctrls[k].i),
                           ![k].i = WrapUint64(ctrls[k].i - 1)]
    /\ UNCHANGED <<miner, workers, callers, calls, txVars, witnessVars>>

\* m.workerWg.Wait() returns and the controller with it.
ControllerWait(k) ==
    /\ crash = "none"
    /\ ctrls[k].pc = "Wait"
    /\ miner.workerWg = 0
    /\ ctrls' = [ctrls EXCEPT ![k].pc = "done"]
    /\ UNCHANGED <<miner, chans, workers, callers, crash, calls, txVars, witnessVars>>

\* The worker finds its quit channel closed: break out; m.workerWg.Done().
WorkerQuit(w) ==
    /\ crash = "none"
    /\ workers[w].pc = "for"
    /\ workers[w].quit \in chans.closed
    /\ workers' = [workers EXCEPT ![w].pc = "done"]
    /\ miner' = [miner EXCEPT !.workerWg = @ - 1]
    /\ UNCHANGED <<chans, ctrls, callers, crash, calls, txVars, witnessVars>>

\* The worker makes a block and has it processed. A turn of the loop that
\* fails to and sleeps leaves everything as it was.
WorkerMine(w) ==
    /\ crash = "none"
    /\ workers[w].pc = "for"
    /\ workers[w].quit \notin chans.closed
    /\ workers' = [workers EXCEPT ![w].pc = "send"]
    /\ UNCHANGED <<miner, chans, ctrls, callers, crash, calls, txVars, witnessVars>>

\* m.newBlockCh <- &blockHash is received, and the worker sleeps out the period.
WorkerSend(w) ==
    /\ crash = "none"
    /\ workers[w].pc = "send"
    /\ workers' = [workers EXCEPT ![w].pc = "for"]
    /\ UNCHANGED <<miner, chans, ctrls, callers, crash, calls, txVars, witnessVars>>

-----------------------------------------------------------------------------
(* RawTxSigWitness (package mainchain): Sign and Materialize                *)

\* A signature slot without a signature: a nil or empty chainjson.HexBytes.
EmptySig == <<>>

\* The digits of the hexadecimal form of a key.
HexDigits == <<"0", "1", "2", "3", "4", "5", "6", "7",
               "8", "9", "a", "b", "c", "d", "e", "f">>

\* chainkd.XPub.String(): the hexadecimal form of the key's bytes, here
\* half-bytes.
XPubString(xpub) == [i \in 1..Len(xpub) |-> HexDigits[xpub[i] + 1]]

\* chainkd.XPrv.XPub(): the public key of a private key.
XPub(xprv) == xprv.pub

\* Template.Hash(index).Byte32(): the signature hash of input index.
TplHash(tpl, index) == <<tpl, index>>

\* chainkd.XPrv.Sign(data): a signature, never empty.
XPrvSign(xprv, data) == <<xprv.name>> \o data

\* The first part of Sign: Sigs gets a slot per key, the signatures already
\* present are kept.
signSlots(w) ==
    IF Len(w.Sigs) < Len(w.Keys)
    THEN [i \in 1..Len(w.Keys) |-> IF i <= Len(w.Sigs) THEN w.Sigs[i] ELSE EmptySig]
    ELSE w.Sigs

\* The loop of Sign that fills every empty slot of the private key instead of
\* the first one.
RECURSIVE signLoopEverySlot(_, _, _, _, _)
signLoopEverySlot(keys, sigs, i, xprv, data) ==
    IF i > Len(keys) THEN sigs
    ELSE IF Len(sigs[i]) > 0 THEN signLoopEverySlot(keys, sigs, i + 1, xprv, data)
    ELSE IF XPubString(keys[i].XPub) # XPubString(XPub(xprv))
    THEN signLoopEverySlot(keys, sigs, i + 1, xprv, data)
    ELSE signLoopEverySlot(keys, [sigs EXCEPT ![i] = XPrvSign(xprv, data)], i + 1,
                           xprv, data)

\* The loop of Sign over sw.Keys from key i on: slots that hold a signature
\* and keys of another private key are passed over; the first other slot
\* gets the signature and ends the loop.
RECURSIVE signLoop(_, _, _, _, _)
signLoop(keys, sigs, i, xprv, data) ==
    IF i > Len(keys) THEN sigs
    ELSE IF Len(sigs[i]) > 0 THEN signLoop(keys, sigs, i + 1, xprv, data)
    ELSE IF XPubString(keys[i].XPub) # XPubString(XPub(xprv))
    THEN signLoop(keys, sigs, i + 1, xprv, data)
    ELSE [sigs EXCEPT ![i] = XPrvSign(xprv, data)]

\* (sw *RawTxSigWitness).Sign(tpl, index, xprv): the witness afterwards.
Sign(w, tpl, index, xprv) ==
    [w EXCEPT !.Sigs = signLoop(w.Keys, signSlots(w), 1, xprv, TplHash(tpl, index))]

\* The loop of Materialize that does not stop at the quorum.
RECURSIVE materializeLoopNoQuorum(_, _, _, _)
materializeLoopNoQuorum(w, a, i, nsigs) ==
    IF ~(i < Len(w.Sigs)) THEN a
    ELSE IF Len(w.Sigs[i + 1]) > 0
    THEN materializeLoopNoQuorum(w, Append(a, w.Sigs[i + 1]), i + 1, nsigs + 1)
    ELSE materializeLoopNoQuorum(w, a, i + 1, nsigs)

\* The loop of Materialize from slot i (counted from 0) with nsigs signatures
\* appended so far.
RECURSIVE materializeLoop(_, _, _, _)
materializeLoop(w, a, i, nsigs) ==
    IF ~(i < Len(w.Sigs) /\ nsigs < w.Quorum) THEN a
    ELSE IF Len(w.Sigs[i + 1]) > 0
    THEN materializeLoop(w, Append(a, w.Sigs[i + 1]), i + 1, nsigs + 1)
    ELSE materializeLoop(w, a, i + 1, nsigs)

\* (sw RawTxSigWitness).Materialize(args): the argument list afterwards. The
\* receiver is a copy of the witness.
Materialize(w, a) == materializeLoop(w, a, 0, 0)

\* A call on the witness: the method, its arguments and the state before.
SigningCall(name, n, xprv, data) ==
    [name |-> name, n |-> n, xprv |-> xprv, data |-> data, sw |-> sw, args |-> args]

NoXPrv == [name |-> "none", pub |-> <<>>]

\* No witness in use.
NewWitness ==
    /\ sw = [Quorum |-> 0, Keys |-> <<>>, Sigs |-> <<>>]
    /\ args = <<>>
    /\ signing = [name |-> "none", n |-> 0, xprv |-> NoXPrv, data |-> <<>>,
                  sw |-> [Quorum |-> 0, Keys |-> <<>>, Sigs |-> <<>>], args |-> <<>>]

-----------------------------------------------------------------------------
(* The transactions, blocks and parameters the model is run on              *)

MaxIns == 2       \* the most inputs of a transaction
MaxOuts == 2      \* the most outputs of a transaction

Assets == {BTMAssetID, "A"}

\* The orders in which a run may iterate the parity map.
Orders == {<<BTMAssetID, "A">>, <<"A", BTMAssetID>>}

SeqsUpTo(S, n) == UNION {[1..k -> S] : k \in 0..n}

GenesisHash == "parent-genesis"

\* The id of the parent-chain transaction that made the deposit, and the id of
\* another transaction of the same parent block.
DepositTxID == "deposit-tx"
OtherTxID == "other-tx"

\* A peg-in witness stack that proves a deposit of the given amount.
GoodWitness(amount) ==
    << [ParseOK |-> TRUE, Amount |-> amount],
       [Nil |-> FALSE, Hash |-> GenesisHash],
       [Script |-> "claim-script"],
       [ParseOK |-> TRUE, ID |-> DepositTxID,
        Outputs |-> <<[Amount |-> amount,
                       ControlProgram |-> PeginControlProgram("claim-script")]>>],
       [ParseOK |-> TRUE, HeaderOK |-> TRUE, Provable |-> TRUE,
        Flags |-> <<0, 1>>, GoodFlags |-> <<0, 1>>, Height |-> 1,
        MatchedTxIDs |-> <<DepositTxID>>] >>

In(typ, asset, amount) ==
    [typ |-> typ, asset |-> asset, amount |-> amount, ok |-> TRUE, cost |-> 0,
     p2w |-> TRUE, arb |-> 0,
     witness |-> IF typ = "Claim" THEN GoodWitness(amount) ELSE <<>>]

Out(typ, asset, amount) == [typ |-> typ, asset |-> asset, amount |-> amount, p2w |-> TRUE]

Hdr(version, size, timeRange) ==
    [Version |-> version, SerializedSize |-> size, TimeRange |-> timeRange]

Block(version, height, txs) ==
    [Nil |-> FALSE, Version |-> version, Height |-> height, Transactions |-> txs]

NilBlock == [Nil |-> TRUE, Version |-> 0, Height |-> 0, Transactions |-> <<>>]

DefaultBlock == Block(1, 1, <<"tx">>)

DefaultEnv ==
    [ParentGenesisBlockHash |-> GenesisHash, ValidatePegin |-> FALSE, Confirmed |-> {}]

Params(ins, outs, hdr, mut) == [ins |-> ins, outs |-> outs, hdr |-> hdr, mut |-> mut]

\* Transactions of any balance: every mix of these inputs and outputs.
ValueIns ==
    {In("Spend", BTMAssetID, MaxInt64), In("Spend", "A", 1), In("Spend", "A", MaxInt64),
     In("Dpos", "A", 1)}

ValueOuts ==
    {Out("Output", BTMAssetID, 1), Out("Output", "A", 1), Out("Output", "A", 2),
     Out("Output", "A", MaxInt64)}

ValueFamily ==
    {Params(ins, outs, Hdr(1, 1, 0), NoMut) :
        ins \in SeqsUpTo(ValueIns, MaxIns), outs \in SeqsUpTo(ValueOuts, MaxOuts)}

\* Transactions at the int64 boundary of amounts and of their sums, and with
\* more native asset going out than coming in.
BoundaryIns ==
    {<<In("Spend", "A", MaxInt64 + 1)>>,
     <<In("Spend", "A", MaxUint64)>>,
     <<In("Spend", "A", MaxInt64), In("Spend", "A", 1)>>,
     <<In("Spend", "A", 1), In("Spend", "A", MaxInt64 + 1)>>,
     <<In("Dpos", "A", MaxInt64 + 1)>>,
     <<In("Dpos", "A", MaxInt64 + 1), In("Spend", "A", 1)>>,
     <<In("Dpos", "A", 1), In("Spend", "A", MaxInt64 + 1)>>,
     <<In("Spend", "A", 1)>>,
     <<In("Spend", BTMAssetID, 1)>>,
     <<In("Spend", BTMAssetID, 1), In("Spend", "A", 1)>>}

BoundaryOuts ==
    {<<>>,
     <<Out("Output", "A", 1)>>,
     <<Out("Output", "A", MaxInt64 + 1)>>,
     <<Out("Output", "A", 1), Out("Output", "A", MaxInt64 + 1)>>,
     <<Out("Output", "A", MaxInt64), Out("Output", "A", MaxInt64)>>,
     <<Out("Output", BTMAssetID, MaxInt64 + 1)>>,
     <<Out("Output", BTMAssetID, 2)>>,
     <<Out("Output", BTMAssetID, 2), Out("Output", "A", 2)>>}

BoundaryFamily ==
    {Params(ins, outs, Hdr(1, 1, 0), NoMut) : ins \in BoundaryIns, outs \in BoundaryOuts}

\* Valid transactions with one field of one edge changed.
ValidShapes ==
    {<<<<In("Spend", BTMAssetID, MaxInt64), In("Spend", "A", 1)>>,
       <<Out("Output", BTMAssetID, 1), Out("Output", "A", 1)>>>>,
     <<<<In("Issuance", "A", 1), In("Dpos", "A", 1)>>, <<Out("Retirement", "A", 1)>>>>,
     <<<<In("Spend", "A", 1), In("Spend", "A", 1)>>,
       <<Out("Output", "A", 1), Out("Output", "A", 1)>>>>,
     <<<<In("Coinbase", BTMAssetID, 1)>>, <<Out("Output", BTMAssetID, 1)>>>>,
     <<<<In("Claim", BTMAssetID, 1)>>, <<Out("Output", BTMAssetID, 1)>>>>}

\* The values a field of the edge at a site may be changed to. A source
\* is never made to refer to an entry that draws, directly or through the
\* Mux, from the entry holding it: entry ids are hashes of the content they
\* refer to.
FieldValues(ins, outs, site, idx, field) ==
    CASE field = "Position" -> {0, 1, 2}
      [] field = "Amount"   -> {1, 2, MaxInt64}
      [] field = "AssetId"  -> Assets
      [] field = "Ref" ->
           IF site = "muxSrc"
           THEN {InID(i) : i \in 1..Len(ins)} \cup {ForeignID}
           ELSE IF site = "outSrc"
           THEN ({MuxID, ForeignID} \cup {InID(i) : i \in 1..Len(ins)}
                   \cup {OutID(j) : j \in 1..Len(outs)}) \ {OutID(idx)}
           ELSE {MuxID, ForeignID} \cup {InID(i) : i \in 1..Len(ins)}
                   \cup {OutID(j) : j \in 1..Len(outs)}

EdgeSites(ins, outs) ==
    {<<site, i>> : site \in {"muxSrc", "inDst"}, i \in 1..Len(ins)}
      \cup {<<site, j>> : site \in {"muxDst", "outSrc"}, j \in 1..Len(outs)}

Mutations(ins, outs) ==
    {m \in UNION {
        {[site |-> sx[1], idx |-> sx[2], field |-> f, val |-> v] :
            v \in FieldValues(ins, outs, sx[1], sx[2], f)} :
        sx \in EdgeSites(ins, outs), f \in {"Ref", "Position", "Amount", "AssetId"}} :
     m.val # BaseEdge(ins, outs, m.site, m.idx)[m.field]}

MutationFamily ==
    UNION {{Params(sh[1], sh[2], Hdr(1, 1, 0), m) :
               m \in {NoMut} \cup Mutations(sh[1], sh[2])} : sh \in ValidShapes}

\* A spend of the native asset that the Mux passes on to an output of another
\* asset, with one field of one edge changed: among them the transaction whose
\* Mux lists its gas-paying input under the other asset, and so balances
\* without the native asset.
GasEdgeFamily ==
    {Params(<<In("Spend", BTMAssetID, 1)>>, <<Out("Output", "A", 1)>>, Hdr(1, 1, 0), m) :
        m \in Mutations(<<In("Spend", BTMAssetID, 1)>>, <<Out("Output", "A", 1)>>)}

\* Spends whose program costs gas, with one field of the spend's own
\* destination changed.
SpendValueShapes ==
    {<<<<[In("Spend", BTMAssetID, MaxInt64) EXCEPT !.cost = 1]>>,
       <<Out("Output", BTMAssetID, 1)>>>>,
     <<<<In("Spend", BTMAssetID, MaxInt64), [In("Spend", "A", 1) EXCEPT !.cost = 1]>>,
       <<Out("Output", BTMAssetID, 1), Out("Output", "A", 1)>>>>}

SpendValueFamily ==
    UNION {{Params(sh[1], sh[2], Hdr(1, 1, 0), m) :
               m \in {n \in Mutations(sh[1], sh[2]) : n.site = "inDst"}} :
           sh \in SpendValueShapes}

\* The transactions on whose entries checkValidSrc and checkValidDest are
\* called with an edge of the caller's choice: the valid shapes, and one whose
\* first input fails its own validation.
EdgeCallShapes ==
    ValidShapes \cup
    {<<<<[In("Spend", "A", 1) EXCEPT !.ok = FALSE], In("Spend", "A", 1)>>,
       <<Out("Output", "A", 1), Out("Retirement", "A", 1)>>>>}

EdgeCallFamily == {Params(sh[1], sh[2], Hdr(1, 1, 0), NoMut) : sh \in EdgeCallShapes}

\* A nil *bc.ValueSource or *bc.ValueDestination.
NilEdge == [Edge(NilId, NilAsset, 0, 0) EXCEPT !.Nil = TRUE]

\* The edges a caller may hand over: nil, or with any reference, present or
\* absent, any asset id, present or absent, and small amounts and positions.
EdgeInputs(T) ==
    {NilEdge} \cup
    {Edge(ref, a, n, pos) :
        ref \in DOMAIN T.Entries \cup {NilId, ForeignID},
        a \in Assets \cup {NilAsset}, n \in {1, 2}, pos \in 0..MaxOuts}

\* Coinbase transactions in and out of place.
CoinbaseFamily ==
    {Params(<<[In("Coinbase", a, 1) EXCEPT !.arb = n]>>, <<Out("Output", a, 1)>>,
            Hdr(1, 1, 0), NoMut) :
        a \in Assets, n \in {0, CoinbaseArbitrarySizeLimit, CoinbaseArbitrarySizeLimit + 1}}

CoinbaseBlocks ==
    {NilBlock, Block(1, 1, <<>>), Block(1, 1, <<"tx">>), Block(1, 1, <<"other">>),
     Block(1, 1, <<"other", "tx">>), Block(1, 1, <<"tx", "other">>)}

\* Transactions that differ in what the pre-checks of ValidateTx look at: the
\* header's version, size and time range, and the kind of the programs that
\* gas inputs spend and that results carry; with programs that cost gas.
PolicyShapes ==
    {<<<<[In("Spend", BTMAssetID, MaxInt64) EXCEPT !.p2w = w, !.cost = c]>>,
       <<[Out("Output", BTMAssetID, 1) EXCEPT !.p2w = v]>>>> :
         w \in BOOLEAN, v \in BOOLEAN, c \in {0, 1, DefaultGasCredit + 1}}
    \cup {<<<<[In("Spend", "A", 1) EXCEPT !.p2w = w]>>,
            <<[Out(k, "A", n) EXCEPT !.p2w = v]>>>> :
         w \in BOOLEAN, v \in BOOLEAN, k \in {"Output", "Retirement"}, n \in {1, 2}}
    \cup {<<<<[In("Spend", BTMAssetID, 1) EXCEPT !.p2w = w]>>,
            <<[Out("Retirement", BTMAssetID, 1) EXCEPT !.p2w = FALSE]>>>> :
         w \in BOOLEAN}
    \cup {<<<<In("Spend", BTMAssetID, 1)>>, <<>>>>,
          <<<<In("Spend", "A", 1)>>, <<>>>>,
          <<<<In("Coinbase", BTMAssetID, 1)>>, <<Out("Output", BTMAssetID, 1)>>>>,
          <<<<In("Claim", BTMAssetID, 1)>>, <<Out("Output", BTMAssetID, 1)>>>>,
          <<<<In("Claim", "A", 1)>>, <<Out("Output", "A", 1)>>>>}

PolicyFamily ==
    {Params(sh[1], sh[2], Hdr(v, size, r), NoMut) :
        sh \in PolicyShapes, v \in {1, 2}, size \in {0, 1}, r \in {0, 1, 2}}

PolicyBlocks == {Block(v, h, <<"tx">>) : v \in {1, 2}, h \in {1, 2}}

\* Peg-in claims whose witness stack differs from a good one in its length and
\* in at most MaxFaults of these respects.
MaxFaults == 2

PeginFaults ==
    {"amountUnparsable", "amountOutOfRange", "amountDiffers", "hashNil", "hashWrong",
     "scriptDiffers", "txUnparsable", "programDiffers", "bundleUnparsable",
     "headerUnparsable", "unprovable", "flagsOwn", "flagsIndices", "higher"}

\* The five elements of a witness for a deposit of the given amount, with faults.
\* With "flagsOwn" the proof reconstructs the root with the flags it carries,
\* which are not their own indices; with "flagsIndices" it reconstructs the
\* root with the indices of its flags, not with the flags it carries. With
\* "txUnmatched" the proof is one for another transaction of the parent block.
FaultyWitness(amount, f) ==
    << [ParseOK |-> "amountUnparsable" \notin f,
        Amount |-> IF "amountOutOfRange" \in f THEN MaxMoney + 1
                   ELSE IF "amountDiffers" \in f THEN amount + 1 ELSE amount],
       [Nil |-> "hashNil" \in f,
        Hash |-> IF "hashNil" \in f THEN "zero-hash"
                 ELSE IF "hashWrong" \in f THEN "other-genesis" ELSE GenesisHash],
       [Script |-> IF "scriptDiffers" \in f THEN "other-script" ELSE "claim-script"],
       [ParseOK |-> "txUnparsable" \notin f, ID |-> DepositTxID,
        Outputs |-> <<[Amount |-> amount,
                       ControlProgram |->
                         IF "programDiffers" \in f THEN <<"P2WSH", "unrelated">>
                         ELSE PeginControlProgram("claim-script")]>>],
       [ParseOK |-> "bundleUnparsable" \notin f,
        HeaderOK |-> "headerUnparsable" \notin f,
        Provable |-> "unprovable" \notin f,
        Flags |-> IF "flagsOwn" \in f THEN <<1, 0>>
                  ELSE IF "flagsIndices" \in f THEN <<1, 1>> ELSE <<0, 1>>,
        GoodFlags |-> IF "flagsOwn" \in f THEN <<1, 0>> ELSE <<0, 1>>,
        Height |-> IF "higher" \in f THEN 2 ELSE 1,
        MatchedTxIDs |-> IF "txUnmatched" \in f THEN <<OtherTxID>> ELSE <<DepositTxID>>] >>

\* A stack of n elements: the first n of the five, or the five and one more.
StackOf(w, n) == IF n <= Len(w) THEN SubSeq(w, 1, n) ELSE Append(w, [Extra |-> TRUE])

StackLengths == {0, 4, 5, 6}

PeginFamily ==
    {Params(<<[In("Claim", BTMAssetID, 1) EXCEPT
                 !.witness = StackOf(FaultyWitness(1, f), n)]>>,
            <<Out("Output", BTMAssetID, 1)>>, Hdr(1, 1, 0), NoMut) :
        f \in {g \in SUBSET PeginFaults : Cardinality(g) <= MaxFaults}, n \in StackLengths}

\* Claims whose prior output names, as the position of its source, an output
\* that the parent transaction of the witness does not have.
PositionFaults == {{}, {"txUnparsable"}, {"amountDiffers"}, {"unprovable"}, {"hashWrong"}}

PeginPositionFamily ==
    {Params(<<[In("Claim", BTMAssetID, 1) EXCEPT !.witness = FaultyWitness(1, f)]>>,
            <<Out("Output", BTMAssetID, 1)>>, Hdr(1, 1, 0),
            [site |-> "prevSrc", idx |-> 1, field |-> "Position", val |-> 1]) :
        f \in PositionFaults}

\* Claims whose witness carries a proof, valid for the parent block, of the
\* inclusion of a transaction other than the parent transaction it presents.
UnmatchedFamily ==
    {Params(<<[In("Claim", BTMAssetID, 1) EXCEPT
                 !.witness = FaultyWitness(1, {"txUnmatched"} \cup f)]>>,
            <<Out("Output", BTMAssetID, 1)>>, Hdr(1, 1, 0), NoMut) :
        f \in {{}, {"unprovable"}, {"amountDiffers"}}}

\* Claims that release one amount on this chain, with a witness, sound in
\* itself, for a deposit of an amount of its own on the parent chain.
ClaimAmounts == {1, 2}

ClaimValueFamily ==
    {Params(<<[In("Claim", BTMAssetID, a) EXCEPT !.witness = FaultyWitness(w, {})]>>,
            <<Out("Output", BTMAssetID, a)>>, Hdr(1, 1, 0), NoMut) :
        a \in ClaimAmounts, w \in ClaimAmounts}

\* Confirmation enforcement off and on, with a parent chain on which the block
\* at height 1 is, or is not, buried deep enough.
PeginEnvs ==
    {[ParentGenesisBlockHash |-> GenesisHash, ValidatePegin |-> v, Confirmed |-> c] :
        v \in BOOLEAN, c \in {{}, {1}}}

\* The operation applied last: its name, the entry it was applied to, the
\* order in which it iterated the parity map, and the state it started from.
Op(name, id, ord, pre) == [name |-> name, id |-> id, ord |-> ord, pre |-> pre]

\* What an operation leaves behind: the gas state, the error it returned, the
\* cache and the trace of its run.
Returned(r, o) ==
    /\ gas' = r.s.gas
    /\ err' = r.err
    /\ cache' = r.s.cache
    /\ log' = r.s.log
    /\ op' = o

NoPre == [gas |-> InitGasState, err |-> NoErr, cache |-> <<>>]

InitWithEnv(family, blocks, envs) ==
    /\ \E p \in family : tx = MapTx(p)
    /\ block \in blocks
    /\ env \in envs
    /\ gas = InitGasState
    /\ err = NoErr
    /\ cache = <<>>
    /\ log = <<>>
    /\ op = Op("none", NilId, <<>>, NoPre)
    /\ NewMiner
    /\ NewWitness

InitWith(family, blocks) == InitWithEnv(family, blocks, {DefaultEnv})

Init ==
    \/ InitWith(ValueFamily, {DefaultBlock})
    \/ InitWith(BoundaryFamily, {DefaultBlock})
    \/ InitWith(MutationFamily, {DefaultBlock})
    \/ InitWith(CoinbaseFamily, CoinbaseBlocks)
    \/ InitWith(PolicyFamily, PolicyBlocks)
    \/ InitWithEnv(PeginFamily, {DefaultBlock}, PeginEnvs)
    \/ InitWithEnv(PeginPositionFamily, {DefaultBlock}, PeginEnvs)
    \/ InitWith(GasEdgeFamily, {DefaultBlock})
    \/ InitWith(SpendValueFamily, {DefaultBlock})
    \/ InitWith(EdgeCallFamily, {DefaultBlock})
    \/ InitWithEnv(ClaimValueFamily, {DefaultBlock}, PeginEnvs)
    \/ InitWithEnv(UnmatchedFamily, {DefaultBlock}, PeginEnvs)

\* ValidateTx(tx, block), as the block validator and the transaction pool call it.
RunValidateTx ==
    /\ op.name = "none"
    /\ \E ord \in Orders :
         Returned(ValidateTx(tx, block, env, ord), Op("ValidateTx", tx.ID, ord, NoPre))
    /\ UNCHANGED <<tx, block, env, minerVars, witnessVars>>

\* checkValid(vs, e) on one entry of the transaction with a fresh
\* validationState, as the package's tests call it.
RunCheckValid ==
    /\ op.name = "none"
    /\ \E id \in {i \in DOMAIN tx.Entries : i[1] \in {"mux", "in", "out"}}, ord \in Orders :
         Returned(checkValid([tx |-> tx, block |-> block, env |-> env, ord |-> ord,
                              entryID |-> id, sourcePos |-> 0, destPos |-> 0],
                             InitWalk, tx.Entries[id]),
                  Op("checkValid", id, ord, NoPre))
    /\ UNCHANGED <<tx, block, env, minerVars, witnessVars>>

\* checkValid(vs, e) once more on the same entry with the same
\* validationState.
RunCheckValidAgain ==
    /\ op.name = "checkValid"
    /\ Returned(checkValid([tx |-> tx, block |-> block, env |-> env, ord |-> op.ord,
                            entryID |-> op.id, sourcePos |-> 0, destPos |-> 0],
                           [gas |-> gas, cache |-> cache, log |-> log], tx.Entries[op.id]),
                Op("checkValidAgain", op.id, op.ord,
                   [gas |-> gas, err |-> err, cache |-> cache]))
    /\ UNCHANGED <<tx, block, env, minerVars, witnessVars>>

\* IsValidPeginWitness(stack, prevout) on the witness stack of a Claim and the
\* output it refers to, as a caller outside checkValid may call it.
RunIsValidPeginWitness ==
    /\ op.name = "none"
    /\ \E id \in {i \in DOMAIN tx.Entries : tx.Entries[i].typ = "Claim"} :
         /\ tx.Entries[id].SpentOutputId \in DOMAIN tx.Entries
         /\ ~tx.Entries[tx.Entries[id].SpentOutputId].Source.Nil
         /\ Returned(Ret(PeginLogged(InitWalk, id,
                            IsValidPeginWitness(env, tx.Entries[id].Peginwitness,
                                tx.Entries[tx.Entries[id].SpentOutputId]).steps),
                         IsValidPeginWitness(env, tx.Entries[id].Peginwitness,
                             tx.Entries[tx.Entries[id].SpentOutputId]).err),
                     Op("IsValidPeginWitness", id, <<>>, NoPre))
    /\ UNCHANGED <<tx, block, env, minerVars, witnessVars>>

\* The arguments of a call of checkValidSrc or checkValidDest, kept with the
\* operation.
EdgeArgs(edge, pos) ==
    [gas |-> InitGasState, err |-> NoErr, cache |-> <<>>, edge |-> edge, pos |-> pos]

\* checkValidSrc(vstate, vs) with vstate at a Mux, Output or Retirement of the
\* transaction and any source position, on an edge of the caller's choice.
RunCheckValidSrc ==
    /\ op.name = "none"
    /\ tx \in {MapTx(p) : p \in EdgeCallFamily}
    /\ \E id \in {i \in DOMAIN tx.Entries : i[1] \in {"mux", "out"}},
          pos \in 0..1, vs \in EdgeInputs(tx), ord \in Orders :
         Returned(checkValidSrc([tx |-> tx, block |-> block, env |-> env, ord |-> ord,
                                 entryID |-> id, sourcePos |-> pos, destPos |-> 0],
                                InitWalk, vs),
                  Op("checkValidSrc", id, ord, EdgeArgs(vs, pos)))
    /\ UNCHANGED <<tx, block, env, minerVars, witnessVars>>

\* checkValidDest(vs, vd) with vs at a Mux or an input of the transaction and
\* any destination position, on an edge of the caller's choice.
RunCheckValidDest ==
    /\ op.name = "none"
    /\ tx \in {MapTx(p) : p \in EdgeCallFamily}
    /\ \E id \in {i \in DOMAIN tx.Entries : i[1] \in {"mux", "in"}},
          pos \in 0..1, vd \in EdgeInputs(tx), ord \in Orders :
         Returned(checkValidDest([tx |-> tx, block |-> block, env |-> env, ord |-> ord,
                                  entryID |-> id, sourcePos |-> 0, destPos |-> pos],
                                 InitWalk, vd),
                  Op("checkValidDest", id, ord, EdgeArgs(vd, pos)))
    /\ UNCHANGED <<tx, block, env, minerVars, witnessVars>>

Next ==
    \/ RunValidateTx
    \/ RunCheckValid
    \/ RunCheckValidAgain
    \/ RunIsValidPeginWitness
    \/ RunCheckValidSrc
    \/ RunCheckValidDest

Spec == Init /\ [][Next]_vars

-----------------------------------------------------------------------------
(* Properties of the Mux's value accounting                                *)

Mux == tx.Entries[MuxID]

\* The Mux has been validated, by ValidateTx's walk or by checkValid itself.
MuxChecked == MuxID \in DOMAIN cache

MuxResult == cache[MuxID]

\* Whether a source of the Mux refers to a Dpos entry.
IsDposSource(src) ==
    src.Ref \in DOMAIN tx.Entries /\ tx.Entries[src.Ref].typ = "Dpos"

\* The exact sum of the amounts in asset a of the first n edges, leaving out
\* the sources that refer to Dpos entries when skipDpos is set.
RECURSIVE SumTo(_, _, _, _)
SumTo(edges, a, n, skipDpos) ==
    IF n = 0 THEN 0
    ELSE SumTo(edges, a, n - 1, skipDpos)
           + (IF edges[n].AssetId = a /\ ~(skipDpos /\ IsDposSource(edges[n]))
              THEN edges[n].Amount ELSE 0)

\* Sum of all source amounts minus sum of all destination amounts, in asset a.
NetAll(a) ==
    SumTo(Mux.Sources, a, Len(Mux.Sources), FALSE)
      - SumTo(Mux.WitnessDestinations, a, Len(Mux.WitnessDestinations), FALSE)

\* The same, leaving out the sources that refer to Dpos entries.
NetCounted(a) ==
    SumTo(Mux.Sources, a, Len(Mux.Sources), TRUE)
      - SumTo(Mux.WitnessDestinations, a, Len(Mux.WitnessDestinations), FALSE)

UnbalancedAll == \E a \in Assets \ {BTMAssetID} : NetAll(a) # 0

UnbalancedCounted == \E a \in Assets \ {BTMAssetID} : NetCounted(a) # 0

\* A source of the Mux refers to an entry the transaction does not hold.
MissingSourceEntry ==
    \E i \in 1..Len(Mux.Sources) : Mux.Sources[i].Ref \notin DOMAIN tx.Entries

\* An amount that enters the sums is 2^63 or more.
SourceTooBig ==
    \E i \in 1..Len(Mux.Sources) :
        ~IsDposSource(Mux.Sources[i]) /\ Mux.Sources[i].Amount > MaxInt64

DestTooBig ==
    \E j \in 1..Len(Mux.WitnessDestinations) : Mux.WitnessDestinations[j].Amount > MaxInt64

\* A running per-asset sum, computed exactly, leaves the int64 range.
RunningSumOutOfRange ==
    \/ \E i \in 1..Len(Mux.Sources) :
          SumTo(Mux.Sources, Mux.Sources[i].AssetId, i, TRUE) > MaxInt64
    \/ \E j \in 1..Len(Mux.WitnessDestinations) :
          LET a == Mux.WitnessDestinations[j].AssetId
          IN  SumTo(Mux.Sources, a, Len(Mux.Sources), TRUE)
                - SumTo(Mux.WitnessDestinations, a, j, FALSE) < MinInt64

\* Asset a has a source that enters the sums.
HasCountedSource(a) ==
    \E i \in 1..Len(Mux.Sources) :
        ~IsDposSource(Mux.Sources[i]) /\ Mux.Sources[i].AssetId = a

\* A destination is in an asset that no counted source is in.
DestWithoutSource ==
    \E j \in 1..Len(Mux.WitnessDestinations) :
        ~HasCountedSource(Mux.WitnessDestinations[j].AssetId)

\* setGas fails on the native asset's net.
NativeGasFails ==
    /\ HasCountedSource(BTMAssetID)
    /\ \/ NetCounted(BTMAssetID) < 0
       \/ ToInt64(TxHeader(tx).SerializedSize) * StorageGasRate > MaxInt64
       \/ ToInt64(TxHeader(tx).SerializedSize) * StorageGasRate < MinInt64

\* C2 as claimed: a Mux with a non-zero net in an asset other than the native
\* one is rejected with Unbalanced and no other kind of error.
MuxUnbalancedAlwaysUnbalancedError ==
    (MuxChecked /\ UnbalancedAll) => MuxResult = "ErrUnbalanced"

\* C2 as amended: a Mux with a non-zero net (over the sources that do not
\* refer to Dpos entries) in an asset other than the native one is rejected;
\* the error is Unbalanced unless another check of the sum passes fails first:
\* MissingEntry for a source whose entry is missing, Overflow for an amount of
\* 2^63 or more or a running sum out of range, NoSource for a destination in
\* an asset without source, or the gas-calculation error of setGas when the
\* parity map yields the native asset first.
MuxUnbalancedRejected ==
    (MuxChecked /\ UnbalancedCounted) =>
        /\ MuxResult \in {"ErrUnbalanced", "ErrOverflow", "ErrNoSource",
                          "ErrGasCalculate", "ErrMissingEntry"}
        /\ MuxResult = "ErrMissingEntry" => MissingSourceEntry
        /\ MuxResult = "ErrOverflow" => SourceTooBig \/ DestTooBig \/ RunningSumOutOfRange
        /\ MuxResult = "ErrNoSource" => DestWithoutSource
        /\ MuxResult = "ErrGasCalculate" => NativeGasFails

\* ValidateTx rejects with Unbalanced a transaction whose Mux takes in less of
\* an asset than it gives out.
MuxUnbalancedRejectedWitness ==
    /\ op.name = "ValidateTx" /\ err = "ErrUnbalanced"
    /\ MuxChecked /\ MuxResult = "ErrUnbalanced"
    /\ NetCounted("A") < 0

-----------------------------------------------------------------------------
(* Properties of the edges                                                 *)

InputTypes == {"Issuance", "Spend", "Coinbase", "Claim", "Dpos"}

\* The source edges an entry holds, and the destination edges it holds.
SourcesOf(e) ==
    IF e.typ = "Mux" THEN e.Sources
    ELSE IF e.typ \in {"Output", "Retirement"} THEN <<e.Source>>
    ELSE <<>>

DestsOf(e) ==
    IF e.typ = "Mux" THEN e.WitnessDestinations
    ELSE IF e.typ \in InputTypes THEN <<e.WitnessDestination>>
    ELSE <<>>

\* Source edge S, held at index i (from 0) by entry id, has its mirror image
\* among the destinations of the entry it refers to.
SourceMirrored(id, i, S) ==
    /\ S.Ref \in DOMAIN tx.Entries
    /\ S.Position < Len(DestsOf(tx.Entries[S.Ref]))
    /\ LET D == DestsOf(tx.Entries[S.Ref])[S.Position + 1]
       IN  D.Ref = id /\ D.Position = i /\ D.AssetId = S.AssetId /\ D.Amount = S.Amount

\* Destination edge D, held at index j (from 0) by entry id, has its mirror
\* image among the sources of the entry it refers to.
DestMirrored(id, j, D) ==
    /\ D.Ref \in DOMAIN tx.Entries
    /\ D.Position < Len(SourcesOf(tx.Entries[D.Ref]))
    /\ LET S == SourcesOf(tx.Entries[D.Ref])[D.Position + 1]
       IN  S.Ref = id /\ S.Position = j /\ S.AssetId = D.AssetId /\ S.Amount = D.Amount

\* Every edge of every entry the walk has validated is mirrored.
ValidatedEdgesMirrored ==
    \A id \in DOMAIN cache :
        LET e == tx.Entries[id]
        IN  /\ \A i \in 1..Len(SourcesOf(e)) : SourceMirrored(id, i - 1, SourcesOf(e)[i])
            /\ e.typ # "Dpos" =>
                 \A j \in 1..Len(DestsOf(e)) : DestMirrored(id, j - 1, DestsOf(e)[j])

\* C4: a transaction that ValidateTx accepts has every source edge of every
\* validated Mux, Output and Retirement, and every destination edge of
\* every validated Mux, Issuance, Spend, Coinbase and Claim, mirrored by the
\* entry it refers to (back-reference, slot, asset and amount); and a
\* transaction in which one of reference, position, asset or amount of one side
\* of one edge has been changed is rejected.
BidirectionalIntegrity ==
    op.name = "ValidateTx" =>
        /\ err = NoErr => ValidatedEdgesMirrored
        /\ tx.Mut.site \in {"muxSrc", "muxDst", "inDst", "outSrc"}
              => err \notin {NoErr, "panic"}

\* An accepted transaction whose Mux has two sources and two destinations,
\* all of them validated.
BidirectionalIntegrityWitness ==
    /\ op.name = "ValidateTx" /\ err = NoErr
    /\ Len(Mux.Sources) = 2 /\ Len(Mux.WitnessDestinations) = 2
    /\ {MuxID, InID(1), InID(2), OutID(1), OutID(2)} \subseteq DOMAIN cache

\* A transaction with a changed edge that is rejected for the value mismatch.
MutationRejectedWitness ==
    /\ op.name = "ValidateTx" /\ err = "ErrMismatchedValue"
    /\ tx.Mut.site = "inDst" /\ tx.Mut.field = "Amount"


-----------------------------------------------------------------------------
(* Properties of the walk                                                  *)

\* How many times the log records step `what` at entry id.
CountEv(what, id) ==
    Cardinality({k \in 1..Len(log) : log[k].ev = what /\ log[k].id = id})

\* C5: in one run the type-specific checks of an entry, the execution of its
\* program and its gas update happen at most once, and exactly once for every
\* entry that has a result; a later visit yields the result the first visit
\* stored, and a repeated checkValid of an entry leaves the result, the gas
\* state and the cache as they were.
Memoization ==
    /\ \A id \in DOMAIN tx.Entries :
          /\ CountEv("check", id) <= 1
          /\ CountEv("vm.Verify", id) <= 1
          /\ CountEv("updateUsage", id) <= 1
          /\ id \in DOMAIN cache => CountEv("check", id) = 1
    /\ \A k \in 1..Len(log) :
          log[k].ev = "cached" =>
              \E j \in 1..(k - 1) :
                  log[j].ev = "done" /\ log[j].id = log[k].id /\ log[j].r = log[k].r
    /\ op.name = "checkValidAgain" =>
          /\ err = op.pre.err /\ gas = op.pre.gas /\ cache = op.pre.cache
          /\ log[Len(log)].ev = "cached" /\ log[Len(log)].id = op.id

\* A run of ValidateTx that visits a gas-paying spend twice, once as a gas
\* input and once as a source of the Mux, and runs its program once.
MemoizationWitness ==
    /\ op.name = "ValidateTx" /\ err = NoErr
    /\ CountEv("cached", InID(1)) = 1
    /\ CountEv("vm.Verify", InID(1)) = 1

\* A repeated checkValid that returns the error the first one stored.
MemoizedErrorWitness ==
    /\ op.name = "checkValidAgain" /\ err = "ErrUnbalanced" /\ gas.BTMValue > 0


-----------------------------------------------------------------------------
(* The gas meter on its own: the methods of GasState applied to a GasState  *)
(* with any field values.                                                   *)

MaxGasOps == 1    \* the most methods applied in a row

GasLeftValues == {MinInt64, -1, 0, 1, 3, MaxInt64}
GasUsedValues == {MinInt64, 0, DefaultGasCredit, DefaultGasCredit + 1, MaxInt64}
StorageGasValues == {MinInt64, 0, 2, MaxInt64}

BTMValueArgs == {-1, 0, 3, 2 * MaxGasAmount, 2 * MaxGasAmount + 2, MaxInt64}
TxSizeArgs == {-1, 0, 1, MaxInt64 \div StorageGasRate, MaxInt64 \div StorageGasRate + 1}
GasLeftArgs == {-1, 0, 1, MaxInt64}

\* A method call: its name, its arguments, the receiver before the call, and
\* how many calls were made so far.
GasOp(name, a, b, pre, n) == [name |-> name, a |-> a, b |-> b, pre |-> pre, n |-> n]

InitGas ==
    /\ tx = MapTx(Params(<<>>, <<>>, Hdr(1, 1, 0), NoMut))
    /\ block = DefaultBlock
    /\ env = DefaultEnv
    /\ gas \in [BTMValue : {0}, GasLeft : GasLeftValues, GasUsed : GasUsedValues,
                GasValid : BOOLEAN, StorageGas : StorageGasValues]
    /\ err = NoErr
    /\ cache = <<>>
    /\ log = <<>>
    /\ op = GasOp("none", 0, 0, gas, 0)
    /\ NewMiner
    /\ NewWitness

CallSetGas ==
    /\ op.n < MaxGasOps
    /\ \E b \in BTMValueArgs, size \in TxSizeArgs :
         LET r == setGas(gas, b, size)
         IN  /\ gas' = r.g
             /\ err' = r.err
             /\ op' = GasOp("setGas", b, size, gas, op.n + 1)
    /\ UNCHANGED <<tx, block, env, cache, log, minerVars, witnessVars>>

CallSetGasValid ==
    /\ op.n < MaxGasOps
    /\ LET r == setGasValid(gas)
       IN  /\ gas' = r.g
           /\ err' = r.err
           /\ op' = GasOp("setGasValid", 0, 0, gas, op.n + 1)
    /\ UNCHANGED <<tx, block, env, cache, log, minerVars, witnessVars>>

CallUpdateUsage ==
    /\ op.n < MaxGasOps
    /\ \E gasLeft \in GasLeftArgs :
         LET r == updateUsage(gas, gasLeft)
         IN  /\ gas' = r.g
             /\ err' = r.err
             /\ op' = GasOp("updateUsage", gasLeft, 0, gas, op.n + 1)
    /\ UNCHANGED <<tx, block, env, cache, log, minerVars, witnessVars>>

NextGas == CallSetGas \/ CallSetGasValid \/ CallUpdateUsage

SpecGas == InitGas /\ [][NextGas]_vars

-----------------------------------------------------------------------------
(* The miner under calls from several goroutines                           *)

\* No transaction is validated while the miner's methods are exercised.
InitMiner ==
    /\ tx = MapTx(Params(<<>>, <<>>, Hdr(1, 1, 0), NoMut))
    /\ block = DefaultBlock
    /\ env = DefaultEnv
    /\ gas = InitGasState
    /\ err = NoErr
    /\ cache = <<>>
    /\ log = <<>>
    /\ op = Op("none", NilId, <<>>, NoPre)
    /\ NewMiner
    /\ NewWitness

\* A step of a caller.
CallerStep(c) ==
    \/ CallStart(c)
    \/ CallStop(c)
    \/ CallIsMining(c)
    \/ CallNumWorkers(c)
    \/ SetNumWorkersStop(c)
    \/ SetNumWorkersBegin(c)
    \/ SetNumWorkersLock(c)

\* A step of controller k, the receipt of a notification included.
ControllerStep(k) ==
    \/ ControllerBegin(k)
    \/ ControllerSelect(k)
    \/ ControllerQuit(k)
    \/ ControllerEqual(k)
    \/ ControllerGreater(k)
    \/ ControllerMore(k)
    \/ ControllerLess(k)
    \/ ControllerWait(k)
    \/ \E c \in Callers : Notify(c, k)

\* A step of worker w.
WorkerStep(w) == WorkerQuit(w) \/ WorkerMine(w) \/ WorkerSend(w)

NextMiner ==
    \/ \E c \in Callers : CallerStep(c)
    \/ \E k \in DOMAIN ctrls : ControllerStep(k)
    \/ \E w \in DOMAIN workers : WorkerStep(w)

SpecMiner == InitMiner /\ [][NextMiner]_vars

\* The goroutines a run can hold: a controller for each Start, and the
\* workers that the controllers can launch between them.
ControllerSlots == 1..MaxCalls

WorkerSlots == 1..(MaxCalls * MaxNumWorkers)

\* The Go scheduler lets every goroutine that can run, run: each controller
\* and each worker takes a step when it stays able to. The receiver of
\* newBlockCh is assumed to keep receiving. Nothing makes a caller call.
FairScheduling ==
    /\ \A k \in ControllerSlots : WF_vars(k \in DOMAIN ctrls /\ ControllerStep(k))
    /\ \A w \in WorkerSlots : WF_vars(w \in DOMAIN workers /\ WorkerStep(w))

SpecMinerFair == InitMiner /\ [][NextMiner]_vars /\ FairScheduling

-----------------------------------------------------------------------------
(* The witness under calls of Sign and Materialize                          *)

MaxKeys == 2
MaxSigs == 3
MaxSigningCalls == 2

\* Public keys, and the private keys of the callers: two keys of the witness
\* and one that is none of its keys.
XPubs == {<<1, 10>>, <<2, 11>>}
XPrvs == {[name |-> "prvA", pub |-> <<1, 10>>], [name |-> "prvB", pub |-> <<2, 11>>],
          [name |-> "prvC", pub |-> <<3, 12>>]}

\* A signature that the witness holds from the start.
OldSig == <<"old">>

Witnesses ==
    {[Quorum |-> q, Keys |-> [i \in 1..Len(ks) |-> [XPub |-> ks[i]]], Sigs |-> sg] :
        q \in -1..MaxSigs, ks \in SeqsUpTo(XPubs, MaxKeys),
        sg \in SeqsUpTo({EmptySig, OldSig}, MaxSigs)}

InitWitness ==
    /\ tx = MapTx(Params(<<>>, <<>>, Hdr(1, 1, 0), NoMut))
    /\ block = DefaultBlock
    /\ env = DefaultEnv
    /\ gas = InitGasState
    /\ err = NoErr
    /\ cache = <<>>
    /\ log = <<>>
    /\ op = Op("none", NilId, <<>>, NoPre)
    /\ NewMiner
    /\ sw \in Witnesses
    /\ args \in {<<>>, <<<<"arg">>>>}
    /\ signing = [name |-> "none", n |-> 0, xprv |-> NoXPrv, data |-> <<>>,
                  sw |-> sw, args |-> args]

CallSign ==
    /\ signing.n < MaxSigningCalls
    /\ \E xprv \in XPrvs, index \in 0..1 :
         /\ sw' = Sign(sw, "tpl", index, xprv)
         /\ signing' = SigningCall("Sign", signing.n + 1, xprv, TplHash("tpl", index))
    /\ UNCHANGED <<args, txVars, minerVars>>

CallMaterialize ==
    /\ signing.n < MaxSigningCalls
    /\ args' = Materialize(sw, args)
    /\ signing' = SigningCall("Materialize", signing.n + 1, NoXPrv, <<>>)
    /\ UNCHANGED <<sw, txVars, minerVars>>

NextWitness == CallSign \/ CallMaterialize

SpecWitness == InitWitness /\ [][NextWitness]_vars

InInt64(n) == MinInt64 <= n /\ n <= MaxInt64

Min(a, b) == IF a <= b THEN a ELSE b

\* C6: setGas(btmAmount, txSize) with btmAmount >= 0 and txSize times the
\* storage gas rate within int64 sets btm_value to btmAmount, gas_left to
\* min(btmAmount div VMGasRate, MaxGasAmount) and storage_gas to the product,
\* and leaves gas_used and gas_valid alone; with btmAmount < 0 or the product
\* out of int64 it fails with the gas-calculation error.
SetGasContract ==
    op.name = "setGas" =>
        IF op.a < 0 \/ ~InInt64(op.b * StorageGasRate)
        THEN /\ err = "ErrGasCalculate"
             /\ op.a < 0 => gas = op.pre
        ELSE /\ err = NoErr
             /\ gas.BTMValue = op.a
             /\ gas.GasLeft = Min(op.a \div VMGasRate, MaxGasAmount)
             /\ gas.StorageGas = op.b * StorageGasRate
             /\ gas.GasUsed = op.pre.GasUsed
             /\ gas.GasValid = op.pre.GasValid

\* setGas with an amount worth more gas than the ceiling: gas_left is the ceiling.
SetGasContractWitness ==
    /\ op.name = "setGas" /\ err = NoErr
    /\ op.a \div VMGasRate > MaxGasAmount
    /\ gas.GasLeft = MaxGasAmount
    /\ gas.StorageGas > 0

\* C7: setGasValid, when gas_left - storage_gas is within int64 and not
\* negative and gas_used + storage_gas is within int64, moves storage_gas from
\* gas_left to gas_used and sets gas_valid; otherwise it fails with the
\* gas-calculation error and leaves gas_valid as it was.
SetGasValidContract ==
    op.name = "setGasValid" =>
        IF /\ InInt64(op.pre.GasLeft - op.pre.StorageGas)
           /\ op.pre.GasLeft - op.pre.StorageGas >= 0
           /\ InInt64(op.pre.GasUsed + op.pre.StorageGas)
        THEN /\ err = NoErr
             /\ gas.GasLeft = op.pre.GasLeft - op.pre.StorageGas
             /\ gas.GasUsed = op.pre.GasUsed + op.pre.StorageGas
             /\ gas.GasValid
             /\ gas.StorageGas = op.pre.StorageGas /\ gas.BTMValue = op.pre.BTMValue
        ELSE /\ err = "ErrGasCalculate"
             /\ gas.GasValid = op.pre.GasValid

\* setGasValid refusing a storage gas that exceeds the gas left.
SetGasValidContractWitness ==
    /\ op.name = "setGasValid" /\ err = "ErrGasCalculate"
    /\ ~op.pre.GasValid /\ ~gas.GasValid
    /\ op.pre.GasLeft >= 0 /\ op.pre.StorageGas > op.pre.GasLeft
    /\ InInt64(op.pre.GasLeft - op.pre.StorageGas)

\* The over-credit test of updateUsage on the state the update leaves.
OverCredit(g) ==
    ~g.GasValid /\ (g.GasUsed > DefaultGasCredit \/ g.StorageGas > g.GasLeft)

-----------------------------------------------------------------------------
(* The Coinbase entry                                                       *)

CoinbaseChecked ==
    /\ op.name = "checkValid"
    /\ tx.Entries[op.id].typ = "Coinbase"

CoinbaseMisplaced ==
    block.Nil \/ Len(block.Transactions) = 0 \/ block.Transactions[1] # tx.Ptr

DestEdgeWalked == CountEv("checkValidDest", op.id) > 0

\* C10: validating a Coinbase entry fails with WrongCoinbaseTransaction when
\* the block is absent, has no transactions or has another transaction at
\* position 0; otherwise with WrongCoinbaseAsset when the destination asset is
\* not the native asset; otherwise with CoinbaseArbitraryOversize when the
\* arbitrary payload is longer than the limit; each of these before the
\* destination edge is walked, and none of them once all three tests pass.
CoinbasePlacement ==
    CoinbaseChecked =>
        LET e == tx.Entries[op.id]
        IN  IF CoinbaseMisplaced
            THEN err = "ErrWrongCoinbaseTransaction" /\ ~DestEdgeWalked
            ELSE IF e.WitnessDestination.AssetId # BTMAssetID
            THEN err = "ErrWrongCoinbaseAsset" /\ ~DestEdgeWalked
            ELSE IF e.Arbitrary > CoinbaseArbitrarySizeLimit
            THEN err = "ErrCoinbaseArbitraryOversize" /\ ~DestEdgeWalked
            ELSE /\ err \notin {"ErrWrongCoinbaseTransaction", "ErrWrongCoinbaseAsset",
                                "ErrCoinbaseArbitraryOversize"}
                 /\ DestEdgeWalked

\* A Coinbase in place whose asset is wrong and whose payload is too long:
\* the asset is reported.
CoinbasePlacementWitness ==
    /\ CoinbaseChecked /\ ~CoinbaseMisplaced
    /\ tx.Entries[op.id].WitnessDestination.AssetId # BTMAssetID
    /\ tx.Entries[op.id].Arbitrary > CoinbaseArbitrarySizeLimit
    /\ err = "ErrWrongCoinbaseAsset"

\* A Coinbase in the second transaction of its block.
CoinbaseMisplacedWitness ==
    /\ CoinbaseChecked
    /\ Len(block.Transactions) = 2 /\ block.Transactions[2] = tx.Ptr
    /\ err = "ErrWrongCoinbaseTransaction"

\* A Coinbase in place that validates.
CoinbaseAcceptedWitness ==
    /\ CoinbaseChecked /\ ~CoinbaseMisplaced
    /\ tx.Entries[op.id].Arbitrary = CoinbaseArbitrarySizeLimit
    /\ err = NoErr /\ gas.GasValid

-----------------------------------------------------------------------------
(* The gas validity a run of ValidateTx ends with                           *)

ValidateTxSucceeded == op.name = "ValidateTx" /\ err = NoErr

\* An entry of the given type was validated by the run.
Validated(typ) ==
    \E id \in DOMAIN cache :
        /\ cache[id] = NoErr
        /\ id \in DOMAIN tx.Entries
        /\ tx.Entries[id].typ = typ

HasGasInputs == Len(tx.GasInputIDs) > 0

\* C11 as claimed: a successful ValidateTx ends with gas_valid true exactly
\* when the transaction has a gas-paying input or a Coinbase or Claim entry was
\* validated.
GasValidIffGasInputOrExempt ==
    ValidateTxSucceeded =>
        (gas.GasValid <=> (HasGasInputs \/ Validated("Coinbase") \/ Validated("Claim")))

\* C11 as amended: a successful ValidateTx ends with gas_valid true exactly
\* when the transaction has a gas-paying input and a Mux was validated, or a
\* Coinbase or Claim entry was validated; without gas-paying inputs and without
\* a Coinbase or Claim it ends with gas_valid false; and a successful
\* checkValid of a Coinbase or Claim entry leaves gas_valid true.
FinalGasValidity ==
    /\ ValidateTxSucceeded =>
          (gas.GasValid <=> ((HasGasInputs /\ Validated("Mux"))
                              \/ Validated("Coinbase") \/ Validated("Claim")))
    /\ (/\ op.name = "checkValid" /\ err = NoErr
        /\ tx.Entries[op.id].typ \in {"Coinbase", "Claim"}) => gas.GasValid

\* A transaction without gas-paying inputs whose Claim makes the gas valid
\* with nothing charged.
FinalGasValidityWitness ==
    /\ ValidateTxSucceeded /\ ~HasGasInputs
    /\ Validated("Claim") /\ Validated("Mux")
    /\ gas.GasValid /\ gas.GasUsed = 0

\* A transaction whose gas-paying input finalizes the gas at the Mux.
GasFinalizedAtMuxWitness ==
    /\ ValidateTxSucceeded /\ HasGasInputs /\ Validated("Mux")
    /\ gas.GasValid /\ gas.GasUsed > gas.StorageGas

\* A transaction with neither: the gas stays not valid.
GasNeverValidWitness ==
    /\ ValidateTxSucceeded /\ ~HasGasInputs /\ Validated("Mux")
    /\ ~gas.GasValid

-----------------------------------------------------------------------------
(* Determinism of ValidateTx                                                *)

\* C12: a run of ValidateTx ends with the same error and the same GasState
\* as a run on the same transaction and block that iterates the Mux's parity
\* map in any other order.
ValidateTxDeterministic ==
    op.name = "ValidateTx" =>
        \A ord \in Orders :
            /\ ValidateTx(tx, block, env, ord).err = err
            /\ ValidateTx(tx, block, env, ord).s.gas = gas

-----------------------------------------------------------------------------
(* The pre-checks of ValidateTx                                             *)

ValidateTxRan == op.name = "ValidateTx" /\ ~block.Nil

WrongVersion == block.Version = 1 /\ TxHeader(tx).Version # 1

WrongSize == TxHeader(tx).SerializedSize = 0

BadTimeRange == TxHeader(tx).TimeRange # 0 /\ TxHeader(tx).TimeRange < block.Height

\* Nothing of the walk has happened: no entry was visited, no program was
\* run, and the GasState is the initial one.
NothingWalked ==
    /\ gas = InitGasState
    /\ cache = <<>>
    /\ \A k \in 1..Len(log) : log[k].ev = "checkStandardTx"

StandardnessRuns == CountEv("checkStandardTx", tx.ID)

NotStandardBeforeWalkWitness ==
    /\ ValidateTxRan /\ err = "ErrNotStandardTx" /\ NothingWalked
    /\ StandardnessRuns = 1
    /\ \E ord \in Orders :
          checkValid([tx |-> tx, block |-> block, env |-> env, ord |-> ord,
                      entryID |-> tx.ID, sourcePos |-> 0, destPos |-> 0],
                     InitWalk, TxHeader(tx)).err \notin {NoErr, "ErrNotStandardTx"}

\* The same transaction rejected with one error or another as the parity map
\* is iterated in one order or another.
ErrorDependsOnOrderWitness ==
    /\ op.name = "ValidateTx" /\ err = "ErrGasCalculate"
    /\ \E ord \in Orders : ValidateTx(tx, block, env, ord).err = "ErrUnbalanced"

-----------------------------------------------------------------------------
(* Standardness                                                             *)

\* A gas input spends an output whose control program is not a
\* segregated-witness program.
NonStandardGasInput ==
    \E k \in 1..Len(tx.GasInputIDs) :
        ~tx.Entries[tx.Entries[tx.GasInputIDs[k]].SpentOutputId].ControlProgram.P2W

\* A result is an Output of the native asset whose control program is not a
\* segregated-witness program.
NonStandardResult ==
    \E i \in 1..Len(TxHeader(tx).ResultIds) :
        LET e == tx.Entries[TxHeader(tx).ResultIds[i]]
        IN  /\ e.typ = "Output"
            /\ e.Source.AssetId = BTMAssetID
            /\ ~e.ControlProgram.P2W

PreChecksPass == ~WrongVersion /\ ~WrongSize /\ ~BadTimeRange

\* C14: a ValidateTx whose version, size and time-range checks pass returns
\* the not-standard error exactly when a gas input spends an output with a
\* program that is not segregated-witness or a result that is an Output of the
\* native asset carries such a program, whatever the walk of the value graph
\* would say; a result that is no Output, or of another asset, never makes it
\* return this error.
Standardness ==
    (ValidateTxRan /\ PreChecksPass) =>
        (err = "ErrNotStandardTx" <=> (NonStandardGasInput \/ NonStandardResult))

\* A native-asset Output with a plain program behind standard gas inputs.
StandardnessWitness ==
    /\ ValidateTxRan /\ PreChecksPass
    /\ NonStandardResult /\ ~NonStandardGasInput
    /\ err = "ErrNotStandardTx"

\* A gas input that spends a plain program, on a graph the walk would reject.
NonStandardGasInputWitness ==
    /\ ValidateTxRan /\ PreChecksPass
    /\ NonStandardGasInput /\ ~NonStandardResult
    /\ err = "ErrNotStandardTx"
    /\ \E ord \in Orders :
          checkValid([tx |-> tx, block |-> block, env |-> env, ord |-> ord,
                      entryID |-> tx.ID, sourcePos |-> 0, destPos |-> 0],
                     InitWalk, TxHeader(tx)).err # NoErr

\* Plain programs on a Retirement of the native asset and on an Output of
\* another asset: accepted.
PlainProgramAcceptedWitness ==
    /\ ValidateTxRan /\ err = NoErr
    /\ \E i \in 1..Len(TxHeader(tx).ResultIds) :
          ~tx.Entries[TxHeader(tx).ResultIds[i]].ControlProgram.P2W

-----------------------------------------------------------------------------
(* Properties of the peg-in verifier                                       *)

\* The witness stack of the Claim entry id.
StackAt(id) == tx.Entries[id].Peginwitness

ClaimIDs == {id \in DOMAIN tx.Entries : tx.Entries[id].typ = "Claim"}

\* The names of the verifier's steps that read an element of the stack.
PeginStepNames == {PeginSteps(FaultyWitness(1, {}))[k].what : k \in 1..8}

\* The steps the verifier took on the witness of entry id, in order.
StepsAt(id) == SelectSeq(log, LAMBDA ev : ev.id = id /\ ev.ev \in PeginStepNames)

\* The last operation was checkValid on a Claim entry.
ClaimChecked == op.name = "checkValid" /\ op.id \in ClaimIDs

\* The last operation was the verifier itself, called on the stack of a Claim.
VerifierCalled == op.name = "IsValidPeginWitness"

\* C15: a Claim whose witness stack has fewer than 5 elements is rejected
\* without the peg-in verifier being invoked and without any element being
\* parsed; the verifier itself rejects every stack whose length is not 5, longer
\* stacks included, without parsing any element.
PeginStackSize ==
    /\ \A id \in ClaimIDs :
          /\ Len(StackAt(id)) < 5 /\ op.name # "IsValidPeginWitness" =>
                CountEv("IsValidPeginWitness", id) = 0
          /\ Len(StackAt(id)) # 5 => Len(StepsAt(id)) = 0
    /\ ClaimChecked /\ Len(StackAt(op.id)) < 5 => err = "ErrPeginNoWitness"
    /\ ClaimChecked /\ Len(StackAt(op.id)) > 5 /\ ~StackAt(op.id)[2].Nil =>
          err = "ErrPeginWitnessSize" /\ CountEv("IsValidPeginWitness", op.id) = 1
    /\ VerifierCalled /\ Len(StackAt(op.id)) # 5 => err = "ErrPeginWitnessSize"

PeginStackSizeWitness ==
    ClaimChecked /\ Len(StackAt(op.id)) = 4 /\ err = "ErrPeginNoWitness"

PeginLongStackWitness ==
    ClaimChecked /\ Len(StackAt(op.id)) = 6 /\ err = "ErrPeginWitnessSize"

PeginVerifierShortStackWitness ==
    VerifierCalled /\ Len(StackAt(op.id)) = 4 /\ err = "ErrPeginWitnessSize"

PeginStackParsedWitness ==
    ClaimChecked /\ Len(StackAt(op.id)) = 5 /\ Len(StepsAt(op.id)) = 7 /\ err = NoErr

\* The proof bundle in the witness stack of entry id.
BundleAt(id) == StackAt(id)[5]

\* The flag sequences handed to the proof validator for entry id, in order.
FlagsHanded(id) ==
    SelectSeq(log, LAMBDA ev : ev.id = id /\ ev.ev = "ValidateTxMerkleTreeProof")

\* The verifier ran on the witness of a Claim, from checkValid or on its own.
VerifierRan ==
    /\ op.name \in {"checkValid", "IsValidPeginWitness"}
    /\ op.id \in ClaimIDs
    /\ (op.name = "checkValid" => CountEv("IsValidPeginWitness", op.id) = 1)

\* The verifier reached the validation of the merkle proof.
ProofValidated == VerifierRan /\ Len(FlagsHanded(op.id)) = 1

\* C16: the flag sequence handed to the merkle-proof validator is the Flags of
\* the parsed bundle, element by element, and the verifier returns the
\* proof-validation error when the proof does not reconstruct the merkle root
\* with those flags.
MerkleProofUsesBundleFlags ==
    ProofValidated =>
      /\ FlagsHanded(op.id)[1].arg = <<BundleAt(op.id).Flags>>
      /\ (~ValidateTxMerkleTreeProof(BundleAt(op.id), BundleAt(op.id).Flags) =>
            err = "ErrMerkleProof")

\* What the code does instead: the validator is handed the indices 0, 1, ... of
\* the bundle's Flags, and the proof is judged with those.
MerkleProofUsesFlagIndices ==
    ProofValidated =>
      /\ FlagsHanded(op.id)[1].arg = <<[i \in 1..Len(BundleAt(op.id).Flags) |-> i - 1]>>
      /\ (~ValidateTxMerkleTreeProof(BundleAt(op.id),
                                     [i \in 1..Len(BundleAt(op.id).Flags) |-> i - 1]) <=>
            err = "ErrMerkleProof")

\* A proof that reconstructs the root with the flags it carries is rejected.
GenuineProofRejectedWitness ==
    /\ ProofValidated
    /\ ValidateTxMerkleTreeProof(BundleAt(op.id), BundleAt(op.id).Flags)
    /\ err = "ErrMerkleProof"

\* A proof that does not reconstruct the root with the flags it carries is accepted.
WrongProofAcceptedWitness ==
    /\ ProofValidated
    /\ ~ValidateTxMerkleTreeProof(BundleAt(op.id), BundleAt(op.id).Flags)
    /\ err = NoErr

\* The output that the Claim entry id refers to on this chain.
PrevoutAt(id) == tx.Entries[tx.Entries[id].SpentOutputId]

\* The output of the parent transaction in the witness of entry id at the
\* position of the prior output's source.
ParentOutputAt(id) == StackAt(id)[4].Outputs[PrevoutAt(id).Source.Position + 1]

\* The parent transaction has an output at that position.
PositionInRange(id) == PrevoutAt(id).Source.Position < Len(StackAt(id)[4].Outputs)

\* The three cross-checks on the witness of entry id.
AmountMatches(id) ==
    PositionInRange(id) /\ ParentOutputAt(id).Amount = StackAt(id)[1].Amount

ProgramMatches(id) ==
    /\ PositionInRange(id)
    /\ ParentOutputAt(id).ControlProgram = PeginControlProgram(StackAt(id)[3].Script)

GenesisMatches(id) == StackAt(id)[2].Hash = env.ParentGenesisBlockHash

\* The verifier ran on a stack of five elements and returned no error.
VerifierAccepted ==
    /\ VerifierRan
    /\ Len(StackAt(op.id)) = 5
    /\ IF op.name = "IsValidPeginWitness" THEN err = NoErr
       ELSE \/ err = NoErr
            \/ \E k \in 1..Len(log) : log[k].id = op.id /\ log[k].ev = "GasValid"

\* C17: the peg-in verifier accepts a witness only if the parent transaction's
\* output at the prior output's position has the claimed amount, that output's
\* control program is the program derived from the claim script, and element 1
\* is the configured parent genesis block hash; a witness failing any one of
\* these is rejected, where the parent transaction has an output at that position.
PeginCrossChecks ==
    /\ VerifierAccepted =>
          AmountMatches(op.id) /\ ProgramMatches(op.id) /\ GenesisMatches(op.id)
    /\ VerifierRan /\ Len(StackAt(op.id)) = 5 /\ PositionInRange(op.id)
          /\ ~(AmountMatches(op.id) /\ ProgramMatches(op.id) /\ GenesisMatches(op.id))
          => err \notin {NoErr, "panic"}

PeginCrossChecksWitness ==
    /\ VerifierAccepted
    /\ AmountMatches(op.id) /\ ProgramMatches(op.id) /\ GenesisMatches(op.id)

PeginAmountRejectedWitness ==
    /\ VerifierRan /\ err = "ErrPeginAmount"
    /\ ~AmountMatches(op.id) /\ ProgramMatches(op.id) /\ GenesisMatches(op.id)

PeginProgramRejectedWitness ==
    /\ VerifierRan /\ err = "ErrPeginProgram"
    /\ AmountMatches(op.id) /\ ~ProgramMatches(op.id) /\ GenesisMatches(op.id)

PeginGenesisRejectedWitness ==
    /\ VerifierRan /\ err = "ErrParentGenesis"
    /\ AmountMatches(op.id) /\ ProgramMatches(op.id) /\ ~GenesisMatches(op.id)

\* The consultations of the confirmation oracle for entry id, in order.
OracleCalls(id) == SelectSeq(log, LAMBDA ev : ev.id = id /\ ev.ev = "IsConfirmedBytomBlock")

\* The checks of the verifier that come before the oracle all passed on the
\* witness of entry id; the merkle proof as the validator was handed it.
ChecksBeforeOraclePassed(id) ==
    /\ Len(StackAt(id)) = 5
    /\ MoneyRange(StackAt(id)[1].Amount)
    /\ Len(FlagsHanded(id)) = 1
    /\ ValidateTxMerkleTreeProof(BundleAt(id), FlagsHanded(id)[1].arg[1])
    /\ AmountMatches(id) /\ ProgramMatches(id)
    /\ GenesisMatches(id)

\* C18: the confirmation oracle is consulted at most once per verification,
\* only when enforcement is enabled and only as the last step, after the
\* stack-size, amount-range, merkle-proof, parent-output and genesis-hash checks
\* have passed; when it is consulted and reports the block not confirmed the
\* claim is rejected; with enforcement disabled it is never consulted.
OracleLastAndOnlyIfEnabled ==
    \A id \in ClaimIDs :
      /\ Len(OracleCalls(id)) <= 1
      /\ ~env.ValidatePegin => Len(OracleCalls(id)) = 0
      /\ Len(OracleCalls(id)) = 1 =>
            /\ env.ValidatePegin
            /\ ChecksBeforeOraclePassed(id)
            /\ Len(StepsAt(id)) = 8
            /\ StepsAt(id)[8].ev = "IsConfirmedBytomBlock"
            /\ StepsAt(id)[8].arg = <<BundleAt(id).Height>>
            /\ (VerifierRan /\ op.id = id /\ BundleAt(id).Height \notin env.Confirmed =>
                  err = "ErrNotConfirmed")

OracleLastAndOnlyIfEnabledWitness ==
    /\ VerifierRan
    /\ Len(OracleCalls(op.id)) = 1
    /\ BundleAt(op.id).Height \notin env.Confirmed
    /\ err = "ErrNotConfirmed"

OracleConfirmedWitness ==
    VerifierRan /\ Len(OracleCalls(op.id)) = 1 /\ err = NoErr

OracleNotConsultedWitness ==
    /\ VerifierRan /\ err = NoErr
    /\ ~env.ValidatePegin /\ BundleAt(op.id).Height \notin env.Confirmed
    /\ Len(OracleCalls(op.id)) = 0

OracleSkippedAfterFailureWitness ==
    /\ VerifierRan /\ env.ValidatePegin /\ Len(StackAt(op.id)) = 5
    /\ err = "ErrParentGenesis" /\ Len(OracleCalls(op.id)) = 0

-----------------------------------------------------------------------------
(* Properties of the miner                                                 *)

\* This step runs the body of the method of this name.
BodyRuns(name) == calls'.n = calls.n + 1 /\ calls'.name = name

\* This step leaves the Miner, the channels and the goroutines as they were.
NoEffect == UNCHANGED <<miner, chans, ctrls, workers, crash>>

\* C19: Start on a started miner has no effect: no new quit channel and no
\* further controller; Stop on a miner that is not started has no effect, and
\* no Stop closes a channel that is closed; IsMining returns true exactly when
\* the last call that had an effect was a Start. Stop counts whether called
\* directly or by SetNumWorkers(0).
StartStopIdempotent ==
    [][/\ BodyRuns("Start") /\ miner.started => NoEffect
       /\ BodyRuns("Start") /\ ~miner.started =>
             /\ miner'.started /\ miner'.quit \notin 1..chans.made
             /\ Len(ctrls') = Len(ctrls) + 1
       /\ BodyRuns("Stop") /\ ~miner.started => NoEffect
       /\ BodyRuns("Stop") /\ miner.started =>
             /\ ~miner'.started /\ crash' = "none"
             /\ miner.quit \notin chans.closed
             /\ chans'.closed = chans.closed \cup {miner.quit}
       /\ BodyRuns("IsMining") =>
             /\ NoEffect
             /\ calls'.ret = (calls.effective = "Start")]_vars

StartStopIdempotentWitness ==
    /\ calls.name = "Start" /\ calls.pre.miner.started /\ ~calls.effect
    /\ Len(ctrls) = 1

StopOnStoppedWitness ==
    /\ calls.name = "Stop" /\ ~calls.pre.miner.started /\ ~calls.effect
    /\ calls.pre.chans.closed # {}

IsMiningAfterStartWitness ==
    /\ calls.name = "IsMining" /\ calls.ret = TRUE
    /\ calls.effective = "Start" /\ calls.n = MaxCalls

IsMiningAfterStopWitness ==
    calls.name = "IsMining" /\ calls.ret = FALSE /\ calls.effective = "Stop"

\* The miner is stopped: a Stop has taken effect, and every call has returned.
Stopped ==
    /\ ~miner.started
    /\ calls.effective = "Stop"
    /\ \A c \in Callers : callers[c].pc = "idle"

\* Every worker has exited and every controller has returned from its Wait.
AllStopped ==
    /\ \A w \in DOMAIN workers : workers[w].pc = "done"
    /\ \A k \in DOMAIN ctrls : ctrls[k].pc = "done"

\* C20: when Stop or SetNumWorkers(0) has returned on a started miner and no
\* Start comes after it, then under fair scheduling every worker exits and
\* every controller's Wait on the worker group returns.
StopStopsAllMining == <>[]Stopped => <>[]AllStopped

\* The same of the runs in which the process does not panic and no controller
\* is caught in a launch of workers without end.
StopStopsAllMiningUnlessBroken ==
    <>[](Stopped /\ crash = "none" /\ \A k \in DOMAIN ctrls : ctrls[k].pc # "launching")
      => <>[]AllStopped

\* The miner is stopped and the process has ended in a panic of a controller.
StoppedAndCrashedWitness == Stopped /\ crash = "index out of range"

\* The miner is stopped and a controller launches workers without end.
StoppedAndLaunchingWitness ==
    /\ Stopped /\ crash = "none"
    /\ \E k \in DOMAIN ctrls : ctrls[k].pc = "launching"
    /\ \E w \in DOMAIN workers : workers[w].quit \notin chans.closed

\* The miner is stopped and everything it launched has ended.
StoppedAndAllStoppedWitness == Stopped /\ AllStopped /\ Len(workers) > 0

\* The worker goroutines that have been launched and have not exited.
RunningWorkers == {w \in DOMAIN workers : workers[w].pc # "done"}

\* C21: the value that NumWorkers returns is the number of worker goroutines
\* running at the time, and so 0 when the miner is not started.
NumWorkersCountsRunning ==
    [][BodyRuns("NumWorkers") =>
         /\ calls'.ret = Cardinality(RunningWorkers)
         /\ (~miner.started => calls'.ret = 0)]_vars

\* What NumWorkers returns instead: the number stored in m.numWorkers, which is
\* the default or what the last SetNumWorkers was given.
NumWorkersReturnsConfigured ==
    [][BodyRuns("NumWorkers") => calls'.ret = miner.numWorkers /\ NoEffect]_vars

\* NumWorkers has returned a number on a miner that was never started.
NumWorkersBeforeStartWitness ==
    /\ calls.name = "NumWorkers" /\ calls.ret = defaultNumWorkers
    /\ ctrls = <<>> /\ workers = <<>>

\* The process has panicked on a channel closed twice or on an index out of
\* the controller's list of workers.
Panicked == crash \in {"close of closed channel", "close of nil channel", "index out of range"}

\* A controller is caught in a launch of workers without end.
LaunchingWithoutEnd == \E k \in DOMAIN ctrls : ctrls[k].pc = "launching"

\* C22: under every interleaving of calls from several goroutines no channel
\* is closed twice and no controller indexes its list of workers out of range.
ConcurrentAccessSafe == ~Panicked

\* C22, of the calls: a SetNumWorkers that waits with the mutex held for its
\* notification to be received does return.
NotificationReceived ==
    \A c \in Callers : (callers[c].pc = "send") ~> (callers[c].pc = "idle")

\* The same of the runs in which no controller panics or launches without end.
NotificationReceivedUnlessBroken ==
    \A c \in Callers :
      (callers[c].pc = "send") ~> (callers[c].pc = "idle" \/ Panicked \/ LaunchingWithoutEnd)

\* No channel is ever closed twice, by Stop or by a controller.
NoDoubleClose == crash \notin {"close of closed channel", "close of nil channel"}

\* A caller is left waiting for ever with the mutex held: the process has ended
\* in a panic of the only controller.
CallerStrandedWitness ==
    /\ crash = "index out of range"
    /\ \E c \in Callers : callers[c].pc = "send" /\ miner.mu = c

-----------------------------------------------------------------------------
(* The order of the steps of the Mux case                                  *)

\* The places in the log of the steps of a kind at an entry.
EvAt(what, id) == {k \in 1..Len(log) : log[k].ev = what /\ log[k].id = id}

\* The gas-paying inputs of the transaction.
GasInputIDSet == {tx.GasInputIDs[k] : k \in 1..Len(tx.GasInputIDs)}

\* Where the type-specific checks of a gas-paying input begin and end.
GasInputBegun == UNION {EvAt("check", id) : id \in GasInputIDSet}

GasInputEnded == UNION {EvAt("done", id) : id \in GasInputIDSet}

\* Where the verification program of an entry that is not a gas-paying input
\* is executed.
OtherProgramRun ==
    {k \in 1..Len(log) : log[k].ev = "vm.Verify" /\ log[k].id \notin GasInputIDSet}

\* Where setGas and setGasValid are applied, and where the destination and the
\* source edges of the Mux are checked.
SetGasAt == EvAt("setGas", tx.ID)

SetGasValidAt == EvAt("setGasValid", MuxID)

MuxDestAt == EvAt("checkValidDest", MuxID)

MuxSrcAt == EvAt("checkValidSrc", MuxID)

\* Every place of A comes before every place of B.
AllBefore(A, B) == \A a \in A, b \in B : a < b

\* A run that validated the Mux: a ValidateTx or a checkValid of an entry.
MuxWalked == op.name \in {"ValidateTx", "checkValid"} /\ EvAt("check", MuxID) # {}

\* A source of the Mux that the sum pass counts is of the native asset.
NativeInMux ==
    \E i \in 1..Len(Mux.Sources) :
        Mux.Sources[i].AssetId = BTMAssetID /\ ~IsDposSource(Mux.Sources[i])

\* C23: when a Mux is validated, setGas (applied when the Mux carries the
\* native asset) comes before any gas-paying input is validated; every gas-paying input is validated before any destination
\* edge of the Mux is checked; setGasValid, applied when the transaction has a
\* gas-paying input, comes after every destination edge and before any source
\* edge; and so, with a gas-paying input, the storage gas is charged before
\* the program of any entry that is not a gas-paying input is executed.
MuxStepOrder ==
    MuxWalked =>
      /\ Cardinality(SetGasAt) <= 1 /\ Cardinality(SetGasValidAt) <= 1
      /\ GasInputBegun # {} /\ NativeInMux => SetGasAt # {}
      /\ AllBefore(SetGasAt, GasInputBegun)
      /\ MuxDestAt # {} => \A id \in GasInputIDSet : EvAt("done", id) # {}
      /\ AllBefore(GasInputEnded, MuxDestAt)
      /\ SetGasValidAt # {} =>
           /\ HasGasInputs
           /\ Cardinality(MuxDestAt) = Len(Mux.WitnessDestinations)
      /\ AllBefore(MuxDestAt, SetGasValidAt)
      /\ AllBefore(SetGasValidAt, MuxSrcAt)
      /\ HasGasInputs /\ MuxSrcAt # {} => SetGasValidAt # {}
      /\ AllBefore(MuxDestAt, MuxSrcAt)
      /\ HasGasInputs /\ OtherProgramRun # {} => SetGasValidAt # {}
      /\ AllBefore(SetGasValidAt, OtherProgramRun)

\* A run in which all of the steps happened: a gas-paying input, destinations,
\* setGasValid, and the program of another input run through a source edge.
MuxStepOrderWitness ==
    /\ MuxWalked /\ err = NoErr
    /\ SetGasAt # {} /\ GasInputBegun # {} /\ MuxDestAt # {}
    /\ SetGasValidAt # {} /\ MuxSrcAt # {} /\ OtherProgramRun # {}

\* A gas-paying input was validated in a Mux that does not carry the native
\* asset, and setGas was not applied.
GasInputWithoutSetGasWitness ==
    MuxWalked /\ GasInputBegun # {} /\ ~NativeInMux /\ SetGasAt = {}

\* A program was run through a source edge of a transaction without
\* gas-paying inputs, and setGasValid was not applied.
ProgramWithoutGasInputsWitness ==
    MuxWalked /\ ~HasGasInputs /\ OtherProgramRun # {} /\ SetGasValidAt = {} /\ err = NoErr

----------------------------------------------------------------------------
\* The value of a Spend or Claim against the output it spends

SpendIDs == {id \in DOMAIN tx.Entries : tx.Entries[id].typ = "Spend"}

\* The entry's check ran to its end in this run.
Checked(id) == EvAt("done", id) # {}

\* The asset and amount of the source of the spent output are those of the
\* entry's own destination.
SpentValueEqual(id) ==
    /\ PrevoutAt(id).Source.AssetId = tx.Entries[id].WitnessDestination.AssetId
    /\ PrevoutAt(id).Source.Amount = tx.Entries[id].WitnessDestination.Amount

\* The program of the output a Spend spends ran and updateUsage took its
\* result.
ProgramCharged(id) ==
    /\ EvAt("updateUsage", id) # {}
    /\ cache[id] \notin {"ErrGasCalculate", "ErrOverGasCredit"}

\* The peg-in verifier accepts the witness of a Claim.
PeginAccepted(id) ==
    /\ Len(StackAt(id)) >= 5
    /\ ~StackAt(id)[2].Nil
    /\ IsValidPeginWitness(env, StackAt(id), PrevoutAt(id)).err = NoErr

\* The updateUsage of the entry's program.
UsageOf(id) == log[CHOOSE k \in EvAt("updateUsage", id) : TRUE]

\* C24: a Spend or Claim is accepted only if the asset and amount of the
\* source of the output it spends equal those of its own destination, and a
\* comparison that finds them different fails with MismatchedValue; a Spend
\* is compared after its program has run and updateUsage was applied, so the
\* gas the program used stays in the GasState when the comparison fails.
SpentValueEquality ==
    /\ \A id \in SpendIDs \cup ClaimIDs :
          Checked(id) /\ cache[id] = NoErr => SpentValueEqual(id)
    /\ \A id \in SpendIDs :
          Checked(id) /\ ProgramCharged(id) /\ ~SpentValueEqual(id) =>
              /\ cache[id] = "ErrMismatchedValue"
              /\ err = "ErrMismatchedValue"
              /\ \A k \in EvAt("done", id) : log[k - 1] = UsageOf(id)
              /\ gas.GasLeft = UsageOf(id).n
              /\ gas.GasUsed >= PrevoutAt(id).ControlProgram.Cost
    /\ \A id \in SpendIDs :
          Checked(id) /\ cache[id] = "ErrMismatchedValue" /\ ~SpentValueEqual(id) =>
              ProgramCharged(id)
    /\ \A id \in ClaimIDs :
          Checked(id) /\ PeginAccepted(id) /\ ~SpentValueEqual(id) =>
              cache[id] = "ErrMismatchedValue"

\* A Spend whose program cost gas failed the comparison, and the gas is
\* recorded.
SpentValueEqualityWitness ==
    \E id \in SpendIDs :
        /\ Checked(id) /\ ProgramCharged(id) /\ ~SpentValueEqual(id)
        /\ PrevoutAt(id).ControlProgram.Cost > 0
        /\ gas.GasUsed > 0

\* A Claim whose witness the verifier accepts failed the comparison.
ClaimValueMismatchWitness ==
    \E id \in ClaimIDs : Checked(id) /\ PeginAccepted(id) /\ ~SpentValueEqual(id)

\* A Spend and a Claim were accepted.
SpendAcceptedWitness == \E id \in SpendIDs : Checked(id) /\ cache[id] = NoErr
ClaimAcceptedWitness == \E id \in ClaimIDs : Checked(id) /\ cache[id] = NoErr

----------------------------------------------------------------------------
\* The order of the errors of checkValidSrc and checkValidDest

SrcCalled == op.name = "checkValidSrc"
DestCalled == op.name = "checkValidDest"

\* The edge and the position the call was made with.
CalledEdge == op.pre.edge
CalledPos == op.pre.pos

\* The edge lacks a field: it is nil, or has no reference, or no asset id.
FieldMissing(edge) == edge.Nil \/ edge.Ref = NilId \/ edge.AssetId = NilAsset

\* The entry types a source may refer to with position 0.
SingleDestTypes == {"Coinbase", "Issuance", "Spend", "Claim", "Dpos"}

\* The entry types a destination may refer to with position 0.
SingleSrcTypes == {"Output", "Retirement"}

\* The result of the validation of the entry a source refers to.
OwnResult(edge) == IF edge.Ref \in DOMAIN cache THEN cache[edge.Ref] ELSE NoErr

\* What the entry a source refers to holds at the source's position.
DestOf(e, pos) ==
    IF e.typ = "Mux" THEN e.WitnessDestinations[pos + 1] ELSE e.WitnessDestination

\* What the entry a destination refers to holds at the destination's position.
SrcOf(e, pos) == IF e.typ = "Mux" THEN e.Sources[pos + 1] ELSE e.Source

\* The first failing condition of the mirror edge, in the order reference,
\* position, value.
FirstMismatch(back, id, pos, edge) ==
    IF back.Ref # id THEN "ErrMismatchedReference"
    ELSE IF back.Position # pos THEN "ErrMismatchedPosition"
    ELSE IF back.AssetId # edge.AssetId \/ back.Amount # edge.Amount
    THEN "ErrMismatchedValue"
    ELSE NoErr

\* The first failing condition of a source, in the order missing field,
\* missing entry, the entry's own failure, entry type, position, mismatches.
FirstSrcFailure(id, pos, vs) ==
    IF FieldMissing(vs) THEN "ErrMissingField"
    ELSE IF vs.Ref \notin DOMAIN tx.Entries THEN "ErrMissingEntry"
    ELSE IF OwnResult(vs) # NoErr THEN OwnResult(vs)
    ELSE IF tx.Entries[vs.Ref].typ \notin SingleDestTypes \cup {"Mux"} THEN "ErrEntryType"
    ELSE IF tx.Entries[vs.Ref].typ \in SingleDestTypes /\ vs.Position # 0 THEN "ErrPosition"
    ELSE IF /\ tx.Entries[vs.Ref].typ = "Mux"
            /\ vs.Position >= Len(tx.Entries[vs.Ref].WitnessDestinations)
    THEN "ErrPosition"
    ELSE FirstMismatch(DestOf(tx.Entries[vs.Ref], vs.Position), id, pos, vs)

\* The first failing condition of a destination, in the order missing field,
\* missing entry, entry type, position, mismatches.
FirstDestFailure(id, pos, vd) ==
    IF FieldMissing(vd) THEN "ErrMissingField"
    ELSE IF vd.Ref \notin DOMAIN tx.Entries THEN "ErrMissingEntry"
    ELSE IF tx.Entries[vd.Ref].typ \notin SingleSrcTypes \cup {"Mux"} THEN "ErrEntryType"
    ELSE IF tx.Entries[vd.Ref].typ \in SingleSrcTypes /\ vd.Position # 0 THEN "ErrPosition"
    ELSE IF /\ tx.Entries[vd.Ref].typ = "Mux"
            /\ vd.Position >= Len(tx.Entries[vd.Ref].Sources)
    THEN "ErrPosition"
    ELSE FirstMismatch(SrcOf(tx.Entries[vd.Ref], vd.Position), id, pos, vd)

\* C25 with the entry type among the conditions of a source: checkValidSrc
\* reports the first failing condition in the order missing field, missing
\* entry, failure of the referenced entry's own validation, wrong entry type,
\* position, mismatched reference, mismatched position, mismatched value; and
\* checkValidDest in the order missing field, missing entry, wrong entry type,
\* position, mismatched reference, mismatched position, mismatched value. The
\* referenced entry is validated exactly when the source has its fields and
\* the entry exists; a destination's entry is not validated.
ErrorPrecedence ==
    /\ SrcCalled =>
          /\ err = FirstSrcFailure(op.id, CalledPos, CalledEdge)
          /\ (~FieldMissing(CalledEdge) /\ CalledEdge.Ref \in DOMAIN tx.Entries)
                <=> EvAt("check", CalledEdge.Ref) # {}
    /\ DestCalled =>
          /\ err = FirstDestFailure(op.id, CalledPos, CalledEdge)
          /\ Len(log) = 1

\* C25: the same, with the conditions of a source as the claim lists them:
\* no source is refused for the type of the entry it refers to.
ErrorPrecedenceAsListed ==
    /\ ErrorPrecedence
    /\ SrcCalled /\ OwnResult(CalledEdge) = NoErr => err # "ErrEntryType"

\* A source with several failing conditions was refused for the first one.
ErrorPrecedenceWitness ==
    /\ SrcCalled
    /\ ~FieldMissing(CalledEdge) /\ CalledEdge.Ref = MuxID /\ CalledEdge.Position = 0
    /\ OwnResult(CalledEdge) = NoErr
    /\ Mux.WitnessDestinations[1].Ref # op.id
    /\ Mux.WitnessDestinations[1].Position # CalledPos
    /\ Mux.WitnessDestinations[1].Amount # CalledEdge.Amount
    /\ err = "ErrMismatchedReference"

\* A destination with several failing conditions was refused for the first
\* one.
DestPrecedenceWitness ==
    /\ DestCalled
    /\ ~FieldMissing(CalledEdge) /\ CalledEdge.Ref = MuxID /\ CalledEdge.Position = 0
    /\ Mux.Sources[1].Ref = op.id
    /\ Mux.Sources[1].Position # CalledPos
    /\ Mux.Sources[1].Amount # CalledEdge.Amount
    /\ err = "ErrMismatchedPosition"

\* A source was refused because the entry it refers to failed, though its
\* position is wrong as well.
SrcOwnFailureWitness ==
    /\ SrcCalled /\ ~FieldMissing(CalledEdge) /\ CalledEdge.Ref \in DOMAIN tx.Entries
    /\ OwnResult(CalledEdge) # NoErr /\ err = OwnResult(CalledEdge)
    /\ CalledEdge.Position # 0

\* A source that refers to an Output was refused for the entry's type.
SrcEntryTypeWitness ==
    /\ SrcCalled /\ ~FieldMissing(CalledEdge) /\ CalledEdge.Ref \in DOMAIN tx.Entries
    /\ tx.Entries[CalledEdge.Ref].typ = "Output"
    /\ OwnResult(CalledEdge) = NoErr /\ err = "ErrEntryType"

----------------------------------------------------------------------------
\* The sources of a Mux that refer to Dpos entries

DposIDs == {id \in DOMAIN tx.Entries : tx.Entries[id].typ = "Dpos"}

\* The positions of the sources of the Mux that refer to Dpos entries.
DposSourceAt == {i \in 1..Len(Mux.Sources) : IsDposSource(Mux.Sources[i])}

\* The Mux without the sources that refer to Dpos entries.
MuxWithoutDpos ==
    [Mux EXCEPT !.Sources = SelectSeq(Mux.Sources, LAMBDA src : ~IsDposSource(src))]

\* The source at position i of the Mux mirrors the destination of the entry
\* it refers to.
SourceEdgeSound(i) ==
    /\ Mux.Sources[i].Position = 0
    /\ FirstMismatch(tx.Entries[Mux.Sources[i].Ref].WitnessDestination, MuxID, i - 1,
                     Mux.Sources[i]) = NoErr

\* The walk of the Mux came to its source edges.
SourcePassBegun == MuxSrcAt # {}

\* The source edges before position i passed their checks.
SourcesBeforePass(i) ==
    \A j \in 1..(i - 1) :
        /\ Mux.Sources[j].Ref \in DOMAIN cache /\ cache[Mux.Sources[j].Ref] = NoErr
        /\ Mux.Sources[j].Ref \notin DposIDs
        /\ SourceEdgeSound(j)

\* C26: the sum pass of the Mux skips the sources that refer to Dpos entries:
\* the sums, and the error of the pass, are those of the Mux without these
\* sources, whatever their amounts; the source pass still checks them as
\* edges: position 0, reference back to the Mux, slot, and equal value; and
\* the dispatcher accepts a Dpos entry itself without running anything.
DposSourcesSkippedBySum ==
    /\ MuxChecked =>
          /\ muxBalance(tx, Mux) = muxBalance(tx, MuxWithoutDpos)
          /\ MuxResult = NoErr => \A i \in DposSourceAt : SourceEdgeSound(i)
          /\ \A i \in DposSourceAt :
                SourcePassBegun /\ SourcesBeforePass(i) /\ ~SourceEdgeSound(i) =>
                    /\ MuxResult \in {"ErrPosition", "ErrMismatchedReference",
                                      "ErrMismatchedPosition", "ErrMismatchedValue"}
                    /\ MuxResult = "ErrPosition" <=> Mux.Sources[i].Position # 0
    /\ \A id \in DposIDs :
          Checked(id) =>
              /\ cache[id] = NoErr
              /\ \A k \in 1..Len(log) : log[k].id = id => log[k].ev \in {"check", "done", "cached"}

\* A Mux with a Dpos source of 2^63 or more and another source was accepted,
\* the Dpos source checked as an edge.
DposSourcesSkippedBySumWitness ==
    /\ MuxChecked /\ MuxResult = NoErr
    /\ \E i \in DposSourceAt :
          /\ Mux.Sources[i].Amount > MaxInt64
          /\ \E k \in MuxSrcAt : log[k].n = i - 1
          /\ Checked(Mux.Sources[i].Ref)
    /\ \E i \in 1..Len(Mux.Sources) : i \notin DposSourceAt

\* A Mux whose sums pass was refused for the edge of a Dpos source.
DposSourceEdgeRefusedWitness ==
    /\ MuxChecked /\ SourcePassBegun
    /\ \E i \in DposSourceAt : SourcesBeforePass(i) /\ ~SourceEdgeSound(i)
    /\ MuxResult = "ErrMismatchedValue"

----------------------------------------------------------------------------
\* The resizing of the set of workers

\* Controller k is handling an update notification.
Resizing(k) == ctrls[k].pc \in {"equal", "greater", "more", "less"}

\* This step ends the handling of an update notification by controller k.
ResizeEnds(k) == Resizing(k) /\ ctrls'[k].pc = "for"

\* This step breaks the handling off: the controller panics, or starts a
\* launch of 2^64 - n workers.
ResizeBreaks(k) == Resizing(k) /\ (crash' # "none" \/ ctrls'[k].pc = "launching")

\* The workers tracked before the notification, numRunning of them.
TrackedBefore(k) == ctrls[k].numRunning

\* C27: when the controller has handled an update notification it tracks as
\* many workers as numWorkers says; a growing set got exactly the difference
\* in new workers, and of a shrinking set exactly the most recently created
\* surplus workers were signalled and the older ones are left running, for
\* every target including 0; and every notification is handled to its end.
WorkerResizing ==
    [][\A k \in DOMAIN ctrls :
          /\ ~ResizeBreaks(k)
          /\ ResizeEnds(k) =>
                /\ Len(ctrls'[k].runningWorkers) = miner'.numWorkers
                /\ \A j \in 1..Len(ctrls'[k].runningWorkers) :
                      j <= TrackedBefore(k) =>
                          ctrls'[k].runningWorkers[j] \notin chans'.closed]_vars

\* The handling of a notification is never broken off.
ResizeNeverBreaks == [][\A k \in DOMAIN ctrls : ~ResizeBreaks(k)]_vars

\* A handling that ends leaves as many workers tracked as numWorkers says.
ResizeEndsRight ==
    [][\A k \in DOMAIN ctrls :
          ResizeEnds(k) => Len(ctrls'[k].runningWorkers) = miner'.numWorkers]_vars

\* The set of workers shrinks only from its end, and only workers beyond the
\* target are signalled; it grows only by new workers.
ResizeKeepsOlder ==
    [][\A k \in DOMAIN ctrls :
          Resizing(k) /\ ctrls'[k] # ctrls[k] /\ crash' = "none" =>
              \/ /\ Len(ctrls'[k].runningWorkers) >= Len(ctrls[k].runningWorkers)
                 /\ SubSeq(ctrls'[k].runningWorkers, 1, Len(ctrls[k].runningWorkers))
                       = ctrls[k].runningWorkers
                 /\ chans'.closed = chans.closed
              \/ /\ Len(ctrls'[k].runningWorkers) = Len(ctrls[k].runningWorkers) - 1
                 /\ ctrls'[k].runningWorkers
                       = SubSeq(ctrls[k].runningWorkers, 1, Len(ctrls[k].runningWorkers) - 1)
                 /\ chans'.closed = chans.closed
                       \cup {ctrls[k].runningWorkers[Len(ctrls[k].runningWorkers)]}
                 /\ Len(ctrls'[k].runningWorkers) >= miner.numWorkers]_vars

\* A controller shrank its set of workers to a target above 0.
ResizeShrunkWitness ==
    \E k \in DOMAIN ctrls :
        /\ ctrls[k].pc = "for" /\ ctrls[k].numRunning = 2
        /\ Len(ctrls[k].runningWorkers) = 1 /\ miner.numWorkers = 1
        /\ chans.closed # {}

\* A controller panicked while shrinking its set of workers to 0.
ResizeToZeroPanicWitness ==
    /\ crash = "index out of range"
    /\ miner.numWorkers = 0
    /\ \E k \in DOMAIN ctrls : ctrls[k].pc = "less" /\ ctrls[k].runningWorkers = <<>>

----------------------------------------------------------------------------
\* RawTxSigWitness.Sign

Signed == signing.name = "Sign"

\* The signature in slot i (counted from 1) of a list of signatures; a slot
\* the list does not have holds none.
SigAt(sigs, i) == IF i <= Len(sigs) THEN sigs[i] ELSE EmptySig

\* The slots that the call found empty and whose key is the private key's
\* public key.
OpenSlots ==
    {i \in 1..Len(signing.sw.Keys) :
        /\ SigAt(signing.sw.Sigs, i) = EmptySig
        /\ signing.sw.Keys[i].XPub = signing.xprv.pub}

\* The slots whose content the call changed.
ChangedSlots ==
    {i \in 1..(Len(sw.Sigs) + Len(signing.sw.Sigs)) :
        SigAt(sw.Sigs, i) # SigAt(signing.sw.Sigs, i)}

LowestOf(S) == CHOOSE i \in S : \A j \in S : i <= j

\* C28: after Sign there are at least as many slots as keys; every slot that
\* held a signature holds the same one; at most one empty slot is filled, and
\* it is the lowest empty slot whose key is the private key's public key;
\* without such a slot the contents of the slots are as before. Quorum and
\* Keys, and the argument list, are left alone.
SignPreservesAndSignsOnce ==
    Signed =>
        /\ Len(sw.Sigs) >= Len(sw.Keys)
        /\ Len(sw.Sigs) >= Len(signing.sw.Sigs)
        /\ \A i \in 1..Len(signing.sw.Sigs) :
              signing.sw.Sigs[i] # EmptySig => sw.Sigs[i] = signing.sw.Sigs[i]
        /\ Cardinality(ChangedSlots) <= 1
        /\ OpenSlots = {} => ChangedSlots = {}
        /\ OpenSlots # {} =>
              /\ ChangedSlots = {LowestOf(OpenSlots)}
              /\ sw.Sigs[LowestOf(OpenSlots)] = XPrvSign(signing.xprv, signing.data)
              /\ sw.Sigs[LowestOf(OpenSlots)] # EmptySig
        /\ sw.Keys = signing.sw.Keys /\ sw.Quorum = signing.sw.Quorum
        /\ args = signing.args

\* A witness with two keys of the same private key, the first slot signed
\* before, had its second slot filled, and a third slot left as it was.
SignPreservesAndSignsOnceWitness ==
    /\ Signed
    /\ Len(signing.sw.Keys) = 2 /\ signing.sw.Keys[1] = signing.sw.Keys[2]
    /\ signing.sw.Sigs = <<OldSig, EmptySig, OldSig>>
    /\ OpenSlots = {2}
    /\ sw.Sigs = <<OldSig, XPrvSign(signing.xprv, signing.data), OldSig>>

\* A witness with fewer slots than keys got its slots, and two open slots
\* got one signature.
SignGrowsSlotsWitness ==
    /\ Signed /\ signing.n = 1
    /\ signing.sw.Sigs = <<>> /\ Len(sw.Sigs) = 2
    /\ OpenSlots = {1, 2} /\ ChangedSlots = {1}

\* A private key that is none of the witness's keys signed nothing.
SignForeignKeyWitness ==
    /\ Signed /\ signing.n = 1 /\ signing.xprv.name = "prvC"
    /\ Len(signing.sw.Keys) = 2 /\ signing.sw.Sigs = <<EmptySig>>
    /\ sw.Sigs = <<EmptySig, EmptySig>>

----------------------------------------------------------------------------
\* RawTxSigWitness.Materialize

Materialized == signing.name = "Materialize"

\* The slots of the witness that hold a signature, in increasing order.
SignedSlots == SelectSeq([i \in 1..Len(sw.Sigs) |-> i], LAMBDA i : sw.Sigs[i] # EmptySig)

\* The number of signatures the call is to append.
QuorumOrAll ==
    IF sw.Quorum <= 0 THEN 0
    ELSE IF sw.Quorum <= Len(SignedSlots) THEN sw.Quorum ELSE Len(SignedSlots)

\* C29: Materialize appends exactly min(Quorum, number of signed slots)
\* signatures, none when Quorum <= 0: the signatures of the first signed
\* slots in increasing order; the arguments already in the list stay as and
\* where they are; the witness is as before.
MaterializeAppendsQuorum ==
    Materialized =>
        /\ Len(args) = Len(signing.args) + QuorumOrAll
        /\ SubSeq(args, 1, Len(signing.args)) = signing.args
        /\ \A j \in 1..QuorumOrAll :
              args[Len(signing.args) + j] = sw.Sigs[SignedSlots[j]]
        /\ sw = signing.sw

\* A witness with more signatures than its quorum, after an empty slot, gave
\* the first one, which Sign had made, to a list that held an argument.
MaterializeAppendsQuorumWitness ==
    /\ Materialized
    /\ signing.args # <<>>
    /\ sw.Quorum = 1 /\ Len(SignedSlots) = 2 /\ sw.Sigs[1] = EmptySig
    /\ sw.Sigs[2] # OldSig
    /\ args = signing.args \o <<sw.Sigs[2]>>

\* A witness with a quorum of 0 or less gave nothing.
MaterializeNoQuorumWitness ==
    Materialized /\ sw.Quorum <= 0 /\ Len(SignedSlots) > 0 /\ args = signing.args

\* A witness with fewer signatures than its quorum gave all it has.
MaterializeBelowQuorumWitness ==
    /\ Materialized /\ sw.Quorum = 3 /\ Len(SignedSlots) = 1
    /\ Len(args) = Len(signing.args) + 1

----------------------------------------------------------------------------
\* Malformed peg-in witnesses

\* The verifier was handed a 5-element witness, by the Claim case or by a
\* caller of its own.
VerifierRanOnFive == VerifierRan /\ Len(StackAt(op.id)) = 5

\* The witness or the prior output is malformed: an element cannot be
\* parsed, the amount is out of range, or the prior output names an output
\* that the parent transaction does not have.
Malformed(id) ==
    \/ ~StackAt(id)[1].ParseOK
    \/ ~MoneyRange(StackAt(id)[1].Amount)
    \/ ~StackAt(id)[4].ParseOK
    \/ ~StackAt(id)[5].ParseOK
    \/ ~StackAt(id)[5].HeaderOK
    \/ ~PositionInRange(id)

\* C30: the verifier ends with a result on every 5-element witness and prior
\* output, and with an error on a malformed one, among them a prior output
\* whose source position is not below the number of outputs of the parent
\* transaction; and the transaction that holds the claim is reported invalid.
MalformedPeginRejected ==
    VerifierRanOnFive =>
        /\ err # "panic"
        /\ Malformed(op.id) => err # NoErr

\* The same for prior outputs whose source position is an output of the
\* parent transaction.
MalformedPeginRejectedInRange ==
    VerifierRanOnFive /\ PositionInRange(op.id) =>
        /\ err # "panic"
        /\ Malformed(op.id) => err # NoErr

\* A position out of range ends the verifier with an error of an earlier step,
\* or with its panic; it is never accepted.
PositionOutOfRangeOutcome ==
    VerifierRanOnFive /\ ~PositionInRange(op.id) =>
        /\ err \in {"panic", "ErrUnmarshalTx", "ErrMerkleProof"}
        /\ err = "panic" <=>
              /\ StackAt(op.id)[4].ParseOK
              /\ ValidateTxMerkleTreeProof(StackAt(op.id)[5], PeginFlags(StackAt(op.id)[5]))

\* ValidateTx of a transaction whose claim names an output that the parent
\* transaction does not have ended in the panic of checkPeginTx.
PositionPanicWitness ==
    /\ op.name = "ValidateTx" /\ err = "panic"
    /\ \E id \in ClaimIDs :
          /\ Len(StackAt(id)) = 5 /\ ~PositionInRange(id)
          /\ \E k \in 1..Len(log) : log[k].ev = "checkPeginTx" /\ log[k].id = id

\* A malformed witness with the position in range was refused.
MalformedRefusedWitness ==
    VerifierRanOnFive /\ PositionInRange(op.id) /\ Malformed(op.id) /\ err = "ErrUnmarshalTx"


----------------------------------------------------------------------------
\* Conservation of gas

\* The last method applied to the GasState was updateUsage or setGasValid and
\* returned nil.
GasMoved == op.name \in {"updateUsage", "setGasValid"} /\ err = NoErr

\* The sum of the gas left and the gas used, as an exact integer.
GasTotal(g) == g.GasLeft + g.GasUsed

GasConservedUnlessWrapped ==
    /\ (GasMoved /\ (op.name = "updateUsage" =>
                        op.pre.GasUsed + (op.pre.GasLeft - op.a) \in MinInt64..MaxInt64))
          => GasTotal(gas) = GasTotal(op.pre) /\ gas.GasLeft >= 0
    /\ GasMoved => gas.GasLeft >= 0
    /\ op.name \in {"setGas", "setGasValid", "updateUsage"} /\ op.pre.GasValid
          => gas.GasValid

\* updateUsage returned nil with gas_used wrapped around.
GasWrappedWitness ==
    /\ op.name = "updateUsage" /\ err = NoErr
    /\ op.pre.GasUsed = MaxInt64 /\ op.pre.GasLeft = 1 /\ op.a = 0
    /\ gas.GasUsed = MinInt64

\* updateUsage and setGasValid moved gas from left to used.
GasMovedWitness ==
    GasMoved /\ gas.GasLeft < op.pre.GasLeft /\ gas.GasUsed > op.pre.GasUsed


-----------------------------------------------------------------------------
(* Termination of the walk                                                  *)

\* Transactions whose source references close a cycle, which no hashing of
\* entries yields but which a bc.Tx built by hand may hold: an output that is
\* its own source, and a Mux that draws from the output it feeds.
CyclicFamily ==
    {Params(<<In("Spend", "A", 1)>>, <<Out("Output", "A", 1)>>, Hdr(1, 1, 0),
            [site |-> st, idx |-> 1, field |-> "Ref", val |-> OutID(1)]) :
        st \in {"muxSrc", "outSrc"}}

\* Validation of entry graphs of either kind: those types.MapTx builds and
\* those with a cycle.
InitGraphs ==
    \/ InitWith(MutationFamily, {DefaultBlock})
    \/ InitWith(EdgeCallFamily, {DefaultBlock})
    \/ InitWith(CyclicFamily, {DefaultBlock})

SpecGraphs == InitGraphs /\ [][Next]_vars

\* The entries an entry's source references lead to.
SourceRefs(T, id) ==
    LET e == T.Entries[id]
    IN  (CASE e.typ = "Mux" -> {e.Sources[i].Ref : i \in 1..Len(e.Sources)}
           [] e.typ \in {"Output", "Retirement"} -> {e.Source.Ref}
           [] OTHER -> {}) \cap DOMAIN T.Entries

\* The entries reached from a set of entries in at most n steps along source
\* references.
RECURSIVE ReachedFrom(_, _, _)
ReachedFrom(T, ids, n) ==
    IF n = 0 THEN ids
    ELSE ReachedFrom(T, ids \cup UNION {SourceRefs(T, i) : i \in ids}, n - 1)

\* The entries that lie on a cycle of source references.
OnCycle(T) ==
    {id \in DOMAIN T.Entries :
        id \in ReachedFrom(T, SourceRefs(T, id), Cardinality(DOMAIN T.Entries))}

Acyclic(T) == OnCycle(T) = {}

\* The steps of the walk that enter checkValid: those that begin the checks of
\* an entry and those the cache answers.
CheckSteps == {k \in 1..Len(log) : log[k].ev = "check"}

Entered == {k \in 1..Len(log) : log[k].ev \in {"check", "cached"}}

\* The calls of checkValid open at step k: begun before it with the deferred
\* store not yet run.
OpenAt(k) ==
    {j \in 1..(k - 1) :
        /\ log[j].ev = "check"
        /\ Cardinality({i \in (j + 1)..(k - 1) : log[i].ev = "check"})
             >= Cardinality({i \in (j + 1)..(k - 1) : log[i].ev = "done"})}

\* The call of checkValid that made the call at step k.
Enclosing(k) == CHOOSE j \in OpenAt(k) : \A i \in OpenAt(k) : i <= j

\* The call at step k was made by the TxHeader case for a result, by the Mux
\* case for a gas input, or by checkValidSrc for the entry its edge refers to.
EnteredFrom(k) ==
    \/ OpenAt(k) = {}
    \/ log[k - 1].ev = "checkValidSrc"
    \/ /\ OpenAt(k) # {}
       /\ LET by == tx.Entries[log[Enclosing(k)].id]
          IN  \/ by.typ = "TxHeader" /\ log[k].id \in {by.ResultIds[i] : i \in 1..Len(by.ResultIds)}
              \/ by.typ = "Mux" /\ log[k].id \in {tx.GasInputIDs[i] : i \in 1..Len(tx.GasInputIDs)}

\* An entry whose checks begin while an earlier call for it is still open.
ReEntered ==
    \E k \in CheckSteps : \E j \in OpenAt(k) : log[j].id = log[k].id

\* The walk has begun the checks of an entry on a cycle.
CycleEntered == \E k \in CheckSteps : log[k].id \in OnCycle(tx)

\* C32: on a transaction without a cycle of source references ValidateTx ends
\* without exhausting the stack, and the checks begun are no more than the
\* entries; checkValid is entered only for a TxHeader result, a Mux gas input or
\* the entry of a source edge, and never right after checkValidDest; the cache
\* answers for an entry only after its checks have ended, so an entry on a
\* cycle is entered again while it is open and the walk ends only when the
\* stack is exhausted.
WalkTerminates ==
    /\ Acyclic(tx) =>
         /\ err # StackOverflow
         /\ Cardinality(CheckSteps) <= Cardinality(DOMAIN tx.Entries)
         /\ ~ReEntered
    /\ \A k \in Entered :
         /\ EnteredFrom(k)
         /\ k > 1 => log[k - 1].ev # "checkValidDest"
    /\ \A k \in 1..Len(log) :
         log[k].ev = "cached" =>
           \E j \in 1..(k - 1) : log[j].ev = "done" /\ log[j].id = log[k].id
    /\ ReEntered => err = StackOverflow /\ ~Acyclic(tx)
    /\ CycleEntered => err # NoErr

\* ValidateTx accepts a transaction without a cycle after checking every one of
\* its entries that the walk reaches, one of them met again in the cache.
WalkTerminatesWitness ==
    /\ op.name = "ValidateTx"
    /\ Acyclic(tx)
    /\ err = NoErr
    /\ Cardinality(CheckSteps) >= 5
    /\ \E k \in Entered : log[k].ev = "cached"

\* ValidateTx on a Mux that draws from the output it feeds: the output is
\* entered again while its first call is open, and the stack is exhausted.
WalkReEntersWitness ==
    /\ op.name = "ValidateTx"
    /\ ~Acyclic(tx)
    /\ ReEntered
    /\ err = StackOverflow
    /\ Cardinality(OnCycle(tx)) = 2


-----------------------------------------------------------------------------
(* The value a claim releases and the deposit its witness proves            *)

\* The Claim entries of the transaction that the walk has accepted.
AcceptedClaims ==
    {id \in DOMAIN tx.Entries :
        /\ tx.Entries[id].typ = "Claim"
        /\ id \in DOMAIN cache
        /\ cache[id] = NoErr}

\* The amount a Claim releases on this chain: that of its destination.
ReleasedAmount(id) == tx.Entries[id].WitnessDestination.Amount

\* The source of the prior output a Claim refers to.
PrevoutSource(id) == tx.Entries[tx.Entries[id].SpentOutputId].Source

\* The amount element 0 of the Claim's witness states.
WitnessAmount(id) == StackAt(id)[1].Amount

\* The amount of the output of the parent transaction in element 3 that the
\* verifier compares with the claimed amount.
DepositAmount(id) == StackAt(id)[4].Outputs[PrevoutSource(id).Position + 1].Amount

\* C33: an accepted Claim releases the amount of the prior output's source, which
\* is the amount its witness claims and the amount of the parent-chain output
\* the verifier compared it with.
ClaimedValueIsDeposit ==
    \A id \in AcceptedClaims :
        /\ ReleasedAmount(id) = PrevoutSource(id).Amount
        /\ ReleasedAmount(id) = WitnessAmount(id)
        /\ WitnessAmount(id) = DepositAmount(id)

\* What the Claim case and checkPeginTx compare: the destination with the prior
\* output's source, and the claimed amount with the parent-chain output.
ClaimedValueCompared ==
    \A id \in AcceptedClaims :
        /\ ReleasedAmount(id) = PrevoutSource(id).Amount
        /\ WitnessAmount(id) = DepositAmount(id)

\* ValidateTx accepts a Claim that releases more than the deposit its witness
\* proves.
ClaimAboveDepositWitness ==
    /\ op.name = "ValidateTx"
    /\ err = NoErr
    /\ \E id \in AcceptedClaims :
         /\ ReleasedAmount(id) = 2
         /\ WitnessAmount(id) = 1
         /\ DepositAmount(id) = 1


-----------------------------------------------------------------------------
(* The parent transaction and the inclusion proof                           *)

\* The Claim entries whose witness the verifier has accepted: by a call of its
\* own, or within the checks of the Claim.
AcceptedWitnesses ==
    {id \in ClaimIDs :
        \/ op.name = "IsValidPeginWitness" /\ op.id = id /\ err = NoErr
        \/ id \in AcceptedClaims}

\* The id of the parent transaction in element 3 of the witness.
ParentTxID(id) == StackAt(id)[4].ID

\* The transaction ids the merkle proof in element 4 proves to be included.
MatchedTxIDs(id) ==
    {StackAt(id)[5].MatchedTxIDs[i] : i \in 1..Len(StackAt(id)[5].MatchedTxIDs)}

\* C34: when the verifier accepts a witness, the id of the parent transaction
\* in element 3 is among the matched transaction ids of the proof in element 4.
ParentTxInProof ==
    \A id \in AcceptedWitnesses : ParentTxID(id) \in MatchedTxIDs(id)

\* What the verifier does establish of the proof: it validates, with the flags
\* handed over, for the matched transaction ids the bundle itself names.
ProofValidates ==
    \A id \in AcceptedWitnesses :
        ValidateTxMerkleTreeProof(StackAt(id)[5], PeginFlags(StackAt(id)[5]))

\* ValidateTx accepts a Claim whose parent transaction the proof does not cover.
ParentTxUnprovenWitness ==
    /\ op.name = "ValidateTx"
    /\ err = NoErr
    /\ \E id \in AcceptedClaims :
         /\ ParentTxID(id) = DepositTxID
         /\ MatchedTxIDs(id) = {OtherTxID}


-----------------------------------------------------------------------------
(* Controllers and workers across restarts                                  *)

\* The controllers in their select loop: launched, and neither past the
\* receipt from m.quit nor about to take it.
ServingControllers ==
    {k \in DOMAIN ctrls :
        /\ ctrls[k].pc \in {"for", "select", "equal", "greater", "more", "less", "launching"}
        /\ ctrls[k].pc = "select" => ctrls[k].quit \notin chans.closed
        /\ ctrls[k].pc = "for" => miner.quit \notin chans.closed}

\* The workers whose quit channel nobody has closed.
UnsignalledWorkers == {w \in DOMAIN workers : workers[w].quit \notin chans.closed}

\* No call is under way, and every controller has launched its workers and
\* handled what it was notified of: it waits in its select with nothing to
\* receive, or has received from m.quit.
MinerAtRest ==
    /\ crash = "none"
    /\ \A c \in Callers : callers[c].pc = "idle"
    /\ \A k \in DOMAIN ctrls : k \in ServingControllers \/ ctrls[k].pc \in {"Wait", "done"}
    /\ \A k \in ServingControllers : ctrls[k].pc \in {"for", "select"}

\* C35: whenever the calls have returned and the controllers have handled what
\* they were notified of, at most one controller serves its select loop and
\* the workers not signalled to quit are at most m.numWorkers, whatever
\* Start, Stop and Start came before.
WorkerBoundAcrossRestarts ==
    MinerAtRest =>
      /\ Cardinality(ServingControllers) <= 1
      /\ Cardinality(UnsignalledWorkers) <= miner.numWorkers

\* After Start, Stop and Start the controller of the first Start waits in its
\* select on the quit channel of the second: two controllers serve, each with
\* its worker, and m.numWorkers is 1.
TwoControllersServeWitness ==
    /\ MinerAtRest
    /\ calls.n = 3
    /\ miner.started
    /\ miner.numWorkers = defaultNumWorkers
    /\ Len(ctrls) = 2
    /\ \A k \in DOMAIN ctrls :
         ctrls[k].pc = "select" /\ ctrls[k].quit = miner.quit
                                /\ Len(ctrls[k].runningWorkers) = 1
    /\ miner.quit \notin chans.closed
    /\ Cardinality(UnsignalledWorkers) = 2

\* A miner started once keeps the bound at rest.
OneControllerServesWitness ==
    /\ MinerAtRest
    /\ miner.started
    /\ Len(ctrls) = 1
    /\ Cardinality(ServingControllers) = 1
    /\ Cardinality(UnsignalledWorkers) = miner.numWorkers
    /\ miner.numWorkers = MaxNumWorkers


\* The bound at rest when every controller but the last launched has received
\* from m.quit.
WorkerBoundOfLastController ==
    (MinerAtRest /\ \A k \in 1..(Len(ctrls) - 1) : ctrls[k].pc \in {"Wait", "done"}) =>
      /\ Cardinality(ServingControllers) <= 1
      /\ Cardinality(UnsignalledWorkers) <= miner.numWorkers

====
